---------------------------- MODULE Spec2Model ----------------------------
(***************************************************************************)
(* Model of the reconciliation-and-load pipeline of genomma_descargas:     *)
(*   - the Backup-and-Replace Loader      (src/etl/4_cargar_snowflake.py)  *)
(*   - the Fallback Dispatcher            (src/app_reportes_sql.py)        *)
(*   - the EAN Enrichment Join            (src/app_reportes_sql.py,        *)
(*                                         src/etl/1_descargar_sql_server) *)
(*   - the Column Disambiguator           (both of the above)              *)
(*   - the Pipeline Orchestrator          (src/pipeline_maestro.py)        *)
(*   - the Extraction Engine              (src/app_reportes_sql.py,        *)
(*                                         src/etl/1_descargar_sql_server) *)
(* Text is modelled as sequences of one-character strings, so that         *)
(* trimming, suffixing and pattern matching are computed, not assumed.     *)
(***************************************************************************)
EXTENDS Integers, Sequences, FiniteSets, TLC

(***************************************************************************)
(* Bounds of the model.                                                    *)
(***************************************************************************)
\* total number of files the loader may process over all runs
MaxCargas == 3
\* most rows of an extract handed to the EAN enrichment
MaxFilasEan == 2
\* most columns of an extract handed to the column disambiguator
MaxColumnas == 4
\* most characters of a column label or of a staged file's base name
MaxEtiqueta == 3
\* calls of source operations in one behaviour
MaxLlamadas == 2

(***************************************************************************)
(* Generic helpers on sequences.                                           *)
(***************************************************************************)
Rango(s) == { s[i] : i \in 1..Len(s) }

MapSeq(s, F(_)) == [ i \in 1..Len(s) |-> F(s[i]) ]

RECURSIVE Concatenar(_)
Concatenar(ss) ==
    IF ss = << >> THEN << >> ELSE Head(ss) \o Concatenar(Tail(ss))

(***************************************************************************)
(* Characters.  "a'" stands for the accented letter a-acute; SUF stands    *)
(* for the file-name suffix "_normalizado.csv" taken as one token.         *)
(***************************************************************************)
SUF == "_normalizado.csv"

\* unicodedata.normalize('NFKD', ..) followed by dropping combining marks
SinAcento(c) == IF c = "a'" THEN "a" ELSE c

\* str.isalnum() on one character (after accents were removed)
EsAlnum(c) == c \in {"A", "B", "X", "O", "L", "D", "a", "b"}

\* str.upper() on one character
Mayuscula(c) ==
    CASE c = "a" -> "A" [] c = "b" -> "B" [] c = "t" -> "T" [] c = "c" -> "C"
      [] OTHER -> c

\* code point order of the characters, as sorted() compares file names
Codigo(c) ==
    CASE c = "-" -> 45 [] c = "A" -> 65 [] c = "B" -> 66 [] c = "X" -> 88
      [] c = "_" -> 95 [] c = SUF -> 96 [] c = "a" -> 97 [] c = "b" -> 98
      [] c = "a'" -> 225 [] OTHER -> 0

RECURSIVE MenorTexto(_, _)
MenorTexto(a, b) ==
    IF a = << >> THEN b # << >>
    ELSE IF b = << >> THEN FALSE
    ELSE IF Codigo(Head(a)) # Codigo(Head(b))
         THEN Codigo(Head(a)) < Codigo(Head(b))
         ELSE MenorTexto(Tail(a), Tail(b))

(***************************************************************************)
(* normalizar_nombre_tabla: file name -> warehouse table identifier.       *)
(***************************************************************************)
RECURSIVE ColapsarGuiones(_)
ColapsarGuiones(s) ==
    IF Len(s) < 2 THEN s
    ELSE IF s[1] = "_" /\ s[2] = "_" THEN ColapsarGuiones(Tail(s))
    ELSE << s[1] >> \o ColapsarGuiones(Tail(s))

RECURSIVE QuitarIzq(_, _)
QuitarIzq(s, c) ==
    IF s # << >> /\ Head(s) = c THEN QuitarIzq(Tail(s), c) ELSE s

RECURSIVE QuitarDer(_, _)
QuitarDer(s, c) ==
    IF s # << >> /\ s[Len(s)] = c
    THEN QuitarDer(SubSeq(s, 1, Len(s) - 1), c) ELSE s

\* str.strip(c)
Strip(s, c) == QuitarDer(QuitarIzq(s, c), c)

\* variant of LimpiarCaracter: every character is kept as it is
LimpiarNada(c) == c

\* c if c.isalnum() or c == '_' else '_'
LimpiarCaracter(c) == IF EsAlnum(c) \/ c = "_" THEN c ELSE "_"

normalizar_nombre_tabla(nombre_archivo) ==
    LET nombre  == SelectSeq(nombre_archivo, LAMBDA c : c # SUF)
        sinAc   == MapSeq(nombre, SinAcento)
        limpio  == MapSeq(sinAc, LimpiarCaracter)
        colaps  == ColapsarGuiones(limpio)
    IN  Strip(MapSeq(colaps, Mayuscula), "_")

\* tabla_old = f"{tabla}_OLD"
tabla_old(tabla) == tabla \o << "_", "O", "L", "D" >>

(***************************************************************************)
(* The warehouse: a set of tables [nombre, datos, filas]; datos is the set *)
(* of dataset versions whose rows the table holds, filas their row count.  *)
(* The operators below are the statements the loader sends.                *)
(***************************************************************************)
Existe(w, nombre) == \E t \in w : t.nombre = nombre

Tabla(w, nombre) == CHOOSE t \in w : t.nombre = nombre

\* pattern matching of SHOW TABLES LIKE: "_" matches any one character
LikeMatch(patron, nombre) ==
    /\ Len(patron) = Len(nombre)
    /\ \A i \in 1..Len(patron) :
          patron[i] = "_" \/ Mayuscula(patron[i]) = Mayuscula(nombre[i])

\* SHOW TABLES LIKE '{tabla}' IN SCHEMA ..; tabla_existe = len(fetchall()) > 0
ShowTablesLike(w, tabla) == { t \in w : LikeMatch(tabla, t.nombre) }

\* DROP TABLE IF EXISTS {tabla_old}
DropTableIfExists(w, nombre) == { t \in w : t.nombre # nombre }

\* ALTER TABLE {tabla} RENAME TO {tabla_old}: needs the source, refuses an
\* existing target
AlterRenamePuede(w, de, a) == Existe(w, de) /\ ~Existe(w, a)

AlterRename(w, de, a) ==
    (w \ { Tabla(w, de) }) \cup { [ Tabla(w, de) EXCEPT !.nombre = a ] }

\* CREATE TABLE {tabla} (..): refuses an existing table of that name
CreateTablePuede(w, nombre) == ~Existe(w, nombre)

CreateTable(w, nombre) == w \cup { [nombre |-> nombre, datos |-> {}, filas |-> 0] }

\* COPY INTO {tabla} .. ON_ERROR = ABORT_STATEMENT: all rows or none
CopyInto(w, nombre, ver, filas) ==
    (w \ { Tabla(w, nombre) })
      \cup { [ Tabla(w, nombre) EXCEPT !.datos = @ \cup {ver},
                                       !.filas = @ + filas ] }

(***************************************************************************)
(* State.                                                                  *)
(***************************************************************************)
VARIABLES
    wh,                  \* the warehouse schema: set of tables
    nver,                \* dataset versions handed out so far
    pc,                  \* per loader process: position in main()
    cola,                \* per process: staged files still to be loaded
    plan,                \* per process: the files its run found
    cur,                 \* per process: the load in progress
    todas_estadisticas,  \* per process: the run summary
    codigo_salida,       \* per process: exit status of the last run
    racha,               \* per table: its consecutive successful loads
    gc,                  \* per process: what happened during its load (ghost)
    ultima,              \* per table: version of its last successful load (ghost)
    fb,                  \* the fallback dispatcher: one call and its outcome
    ean,                 \* the EAN enrichment: one call and its outcome
    dis,                 \* the column disambiguator: one call and its outcome
    mp,                  \* the pipeline orchestrator: one run of ejecutar_pipeline
    ex,                  \* the extraction engine: one call and its outcome
    hn,                  \* the header normalizer and the table-name resolver
    fs,                  \* the staged files of one country through steps 1 to 3
    cn                   \* the connections to the source left open

varsCarga == << wh, nver, pc, cola, plan, cur, todas_estadisticas,
                codigo_salida, racha, gc, ultima >>

\* the components added to the model after the first six
resto == << hn, fs, cn >>

vars == << varsCarga, fb, ean, dis, mp, ex, resto >>

\* what the loader never touches
otrosCarga == << fb, ean, dis, mp, ex, resto >>

(***************************************************************************)
(* Configuration of the loader.                                            *)
(***************************************************************************)
\* loader processes; the pipeline runs one at a time
Procs == {1, 2}
Secuencial == {1}

\* PAISES (two of the configured country folders)
PAISES == << "CHILE", "PERU" >>

\* staged *_normalizado.csv files that may be present in the country folders
Archivos ==
    { [pais |-> "CHILE", nombre |-> << "A", "X", "B", SUF >>],
      [pais |-> "CHILE", nombre |-> << "A", "_", "B", SUF >>],
      [pais |-> "PERU",  nombre |-> << "a'", "-", "b", SUF >>] }

Tablas == { normalizar_nombre_tabla(f.nombre) : f \in Archivos }

\* df.height of a staged file when it is read
FilasPosibles == {0, 1, 2}

None == "None"

\* sorted(archivos_normalizados)
RECURSIVE Ordenar(_)
Ordenar(S) ==
    IF S = {} THEN << >>
    ELSE LET m == CHOOSE f \in S :
                    \A g \in S \ {f} : MenorTexto(f.nombre, g.nombre)
         IN  << m >> \o Ordenar(S \ {m})

\* for pais in PAISES: for csv_path in sorted(pais_dir.glob("*_normalizado.csv"))
procesar_carpeta_pais(S, pais) == Ordenar({ f \in S : f.pais = pais })

ArchivosDelRun(S) ==
    Concatenar([ i \in 1..Len(PAISES) |-> procesar_carpeta_pais(S, PAISES[i]) ])

StatsInicial(f) ==
    [ archivo |-> f.nombre, pais |-> f.pais,
      tabla |-> normalizar_nombre_tabla(f.nombre),
      filas_leidas |-> 0, filas_cargadas |-> 0, exito |-> FALSE, error |-> None ]

SinCarga ==
    [ stats |-> [ archivo |-> << >>, pais |-> None, tabla |-> << >>,
                  filas_leidas |-> 0, filas_cargadas |-> 0,
                  exito |-> FALSE, error |-> None ],
      ver |-> 0, tabla_existe |-> FALSE,
      toco |-> FALSE, existia |-> FALSE, previa |-> {}, rename_fallo |-> FALSE ]

\* ghost of one load: con_falla, a statement of it failed for a reason of
\* its own; interferida, another process changed its table or the backup
\* of its table after its existence check
GcInicial == [ con_falla |-> FALSE, interferida |-> FALSE ]

InitCarga ==
    /\ wh = {}
    /\ nver = 0
    /\ pc = [p \in Procs |-> "inactivo"]
    /\ cola = [p \in Procs |-> << >>]
    /\ plan = [p \in Procs |-> << >>]
    /\ cur = [p \in Procs |-> SinCarga]
    /\ todas_estadisticas = [p \in Procs |-> << >>]
    /\ codigo_salida = [p \in Procs |-> None]
    /\ racha = [t \in Tablas |-> << >>]
    /\ gc = [p \in Procs |-> GcInicial]
    /\ ultima = [t \in Tablas |-> 0]

\* the exception path of cargar_csv_a_snowflake: stats['error'] = str(e)
ConError(c, msg) == [ c EXCEPT !.stats.error = msg ]

(***************************************************************************)
(* The statements of crear_tabla_snowflake and copy_parquet_to_snowflake   *)
(* as the warehouse answers them: [ok, w] is whether the statement         *)
(* succeeded and the schema it leaves.                                     *)
(***************************************************************************)
\* variant of SentenciaDrop: the DROP names the live table instead of its backup
SentenciaDropViva(w, tabla) ==
    [ ok |-> TRUE, w |-> DropTableIfExists(w, tabla) ]

\* cursor.execute(f"DROP TABLE IF EXISTS {full_table_old}")
SentenciaDrop(w, tabla) ==
    [ ok |-> TRUE, w |-> DropTableIfExists(w, tabla_old(tabla)) ]

\* cursor.execute(f"ALTER TABLE {full_table} RENAME TO {quote_ident(tabla_old)}")
SentenciaRename(w, tabla) ==
    IF AlterRenamePuede(w, tabla, tabla_old(tabla))
    THEN [ ok |-> TRUE, w |-> AlterRename(w, tabla, tabla_old(tabla)) ]
    ELSE [ ok |-> FALSE, w |-> w ]

\* variant of SentenciaCreate: CREATE OR REPLACE TABLE
SentenciaCreateOrReplace(w, tabla) ==
    [ ok |-> TRUE, w |-> CreateTable(DropTableIfExists(w, tabla), tabla) ]

\* cursor.execute(ddl), ddl = f"CREATE TABLE {full_table} (...)"
SentenciaCreate(w, tabla) ==
    IF CreateTablePuede(w, tabla)
    THEN [ ok |-> TRUE, w |-> CreateTable(w, tabla) ]
    ELSE [ ok |-> FALSE, w |-> w ]

\* cursor.execute(copy_cmd)
SentenciaCopy(w, tabla, ver, filas) ==
    IF Existe(w, tabla)
    THEN [ ok |-> TRUE, w |-> CopyInto(w, tabla, ver, filas) ]
    ELSE [ ok |-> FALSE, w |-> w ]

\* variant of ColaTrasCarga: an error of one file ends the run
ColaTrasCargaAborta(c, q) ==
    IF c.stats.error = None THEN Tail(q) ELSE << >>

\* the for loop of procesar_carpeta_pais after one file returned its stats
ColaTrasCarga(c, q) == Tail(q)

\* ghost: the consecutive successful loads of a table
RachaTras(r, c) ==
    IF c.stats.exito
    THEN Append(r, [ver |-> c.ver, filas |-> c.stats.filas_cargadas])
    ELSE IF c.toco THEN << >>
    ELSE r

(***************************************************************************)
(* main() of the loader, one action per step.                              *)
(***************************************************************************)
\* get_snowflake_connection() raises: sys.exit(1)
Main_ConexionFalla(p) ==
    /\ pc[p] \in {"inactivo", "fin"}
    /\ pc' = [pc EXCEPT ![p] = "fin"]
    /\ codigo_salida' = [codigo_salida EXCEPT ![p] = 1]
    /\ todas_estadisticas' = [todas_estadisticas EXCEPT ![p] = << >>]
    /\ plan' = [plan EXCEPT ![p] = << >>]
    /\ cola' = [cola EXCEPT ![p] = << >>]
    /\ UNCHANGED otrosCarga
    /\ UNCHANGED << wh, nver, cur, racha >>

\* connected; the country folders hold the files S
Main_Inicio(p) ==
    /\ pc[p] \in {"inactivo", "fin"}
    /\ \E S \in SUBSET Archivos :
          /\ Cardinality(S) <= MaxCargas - nver
          /\ plan' = [plan EXCEPT ![p] = ArchivosDelRun(S)]
          /\ cola' = [cola EXCEPT ![p] = ArchivosDelRun(S)]
    /\ pc' = [pc EXCEPT ![p] = "bucle"]
    /\ todas_estadisticas' = [todas_estadisticas EXCEPT ![p] = << >>]
    /\ codigo_salida' = [codigo_salida EXCEPT ![p] = None]
    /\ UNCHANGED otrosCarga
    /\ UNCHANGED << wh, nver, cur, racha >>

\* no file left: the summary is printed and main() returns
Main_Resumen(p) ==
    /\ pc[p] = "bucle"
    /\ cola[p] = << >>
    /\ pc' = [pc EXCEPT ![p] = "fin"]
    /\ codigo_salida' = [codigo_salida EXCEPT ![p] = 0]
    /\ UNCHANGED otrosCarga
    /\ UNCHANGED << wh, nver, cola, plan, cur, todas_estadisticas, racha >>

\* cargar_csv_a_snowflake is entered for the next file
Cargar_Entrar(p) ==
    /\ pc[p] = "bucle"
    /\ cola[p] # << >>
    /\ nver' = nver + 1
    /\ cur' = [cur EXCEPT ![p] =
                 [ SinCarga EXCEPT !.stats = StatsInicial(Head(cola[p])),
                                   !.ver = nver + 1 ]]
    /\ pc' = [pc EXCEPT ![p] = "leer"]
    /\ UNCHANGED otrosCarga
    /\ UNCHANGED << wh, cola, plan, todas_estadisticas, codigo_salida, racha >>

\* reading the CSV raises (both readers)
Cargar_LeerFalla(p) ==
    /\ pc[p] = "leer"
    /\ cur' = [cur EXCEPT ![p] = ConError(@, "ErrLeer")]
    /\ pc' = [pc EXCEPT ![p] = "retorno"]
    /\ UNCHANGED otrosCarga
    /\ UNCHANGED << wh, nver, cola, plan, todas_estadisticas, codigo_salida, racha >>

\* the CSV is read; an empty one is returned without loading
Cargar_Leer(p) ==
    /\ pc[p] = "leer"
    /\ \E n \in FilasPosibles :
          /\ cur' = [cur EXCEPT ![p].stats.filas_leidas = n]
          /\ pc' = [pc EXCEPT ![p] = IF n = 0 THEN "retorno" ELSE "check"]
    /\ UNCHANGED otrosCarga
    /\ UNCHANGED << wh, nver, cola, plan, todas_estadisticas, codigo_salida, racha >>

(***************************************************************************)
(* crear_tabla_snowflake, one action per statement.  Each statement may    *)
(* also fail for a reason of its own (connection, permission): falla.      *)
(***************************************************************************)
\* 1. SHOW TABLES LIKE raises: the load fails before touching anything
CrearTabla_CheckFalla(p) ==
    /\ pc[p] = "check"
    /\ cur' = [cur EXCEPT ![p] = [ ConError(@, "ErrShow") EXCEPT !.toco = TRUE ]]
    /\ pc' = [pc EXCEPT ![p] = "retorno"]
    /\ UNCHANGED otrosCarga
    /\ UNCHANGED << wh, nver, cola, plan, todas_estadisticas, codigo_salida, racha >>

\* 1. tabla_existe = len(cursor.fetchall()) > 0
CrearTabla_Check(p) ==
    /\ pc[p] = "check"
    /\ LET t == cur[p].stats.tabla
           existe == ShowTablesLike(wh, t) # {}
       IN  /\ cur' = [cur EXCEPT ![p].tabla_existe = existe,
                                 ![p].toco = TRUE,
                                 ![p].existia = Existe(wh, t),
                                 ![p].previa = { x \in wh : x.nombre = t }]
           /\ pc' = [pc EXCEPT ![p] = IF existe THEN "drop" ELSE "create"]
    /\ UNCHANGED otrosCarga
    /\ UNCHANGED << wh, nver, cola, plan, todas_estadisticas, codigo_salida, racha >>

\* 2. DROP TABLE IF EXISTS <tabla>_OLD; a failure is swallowed (except: pass)
CrearTabla_Drop(p) ==
    /\ pc[p] = "drop"
    /\ \E falla \in BOOLEAN :
          wh' = IF falla THEN wh ELSE SentenciaDrop(wh, cur[p].stats.tabla).w
    /\ pc' = [pc EXCEPT ![p] = "rename"]
    /\ UNCHANGED otrosCarga
    /\ UNCHANGED << nver, cola, plan, cur, todas_estadisticas, codigo_salida, racha >>

\* 3. ALTER TABLE <tabla> RENAME TO <tabla>_OLD; a failure is only logged
CrearTabla_Rename(p) ==
    /\ pc[p] = "rename"
    /\ \E falla \in BOOLEAN :
          LET r  == SentenciaRename(wh, cur[p].stats.tabla)
              ok == ~falla /\ r.ok
          IN  /\ wh' = IF ok THEN r.w ELSE wh
              /\ cur' = [cur EXCEPT ![p].rename_fallo = ~ok]
    /\ pc' = [pc EXCEPT ![p] = "create"]
    /\ UNCHANGED otrosCarga
    /\ UNCHANGED << nver, cola, plan, todas_estadisticas, codigo_salida, racha >>

\* 4. CREATE TABLE <tabla>; a failure is logged and raised again
CrearTabla_Create(p) ==
    /\ pc[p] = "create"
    /\ \E falla \in BOOLEAN :
          LET r  == SentenciaCreate(wh, cur[p].stats.tabla)
              ok == ~falla /\ r.ok
          IN  /\ wh' = IF ok THEN r.w ELSE wh
              /\ cur' = IF ok THEN cur
                        ELSE [cur EXCEPT ![p] = ConError(@, "ErrCreate")]
              /\ pc' = [pc EXCEPT ![p] = IF ok THEN "copy" ELSE "retorno"]
    /\ UNCHANGED otrosCarga
    /\ UNCHANGED << nver, cola, plan, todas_estadisticas, codigo_salida, racha >>

(***************************************************************************)
(* copy_parquet_to_snowflake: write Parquet, PUT, COPY INTO, REMOVE.       *)
(***************************************************************************)
CopyParquet(p) ==
    /\ pc[p] = "copy"
    /\ \E resultado \in {"ok", "falla_copy", "falla_remove"} :
          LET c == cur[p]
              r == SentenciaCopy(wh, c.stats.tabla, c.ver, c.stats.filas_leidas)
          IN  IF resultado = "falla_copy" \/ ~r.ok
              THEN /\ wh' = wh
                   /\ cur' = [cur EXCEPT ![p] = ConError(@, "ErrCopy")]
              ELSE /\ wh' = r.w
                   /\ cur' = IF resultado = "ok"
                             THEN [cur EXCEPT
                                     ![p].stats.filas_cargadas = c.stats.filas_leidas,
                                     ![p].stats.exito = TRUE]
                             ELSE [cur EXCEPT ![p] = ConError(@, "ErrRemove")]
    /\ pc' = [pc EXCEPT ![p] = "retorno"]
    /\ UNCHANGED otrosCarga
    /\ UNCHANGED << nver, cola, plan, todas_estadisticas, codigo_salida, racha >>

\* return stats; estadisticas.append(stats); next file
Cargar_Retorno(p) ==
    /\ pc[p] = "retorno"
    /\ todas_estadisticas' =
          [todas_estadisticas EXCEPT ![p] = Append(@, cur[p].stats)]
    /\ racha' = [racha EXCEPT ![cur[p].stats.tabla] = RachaTras(@, cur[p])]
    /\ cola' = [cola EXCEPT ![p] = ColaTrasCarga(cur[p], @)]
    /\ pc' = [pc EXCEPT ![p] = "bucle"]
    /\ UNCHANGED otrosCarga
    /\ UNCHANGED << wh, nver, plan, cur, codigo_salida >>

PasoCarga(p) ==
    \/ Main_ConexionFalla(p)
    \/ Main_Inicio(p)
    \/ Main_Resumen(p)
    \/ Cargar_Entrar(p)
    \/ Cargar_LeerFalla(p)
    \/ Cargar_Leer(p)
    \/ CrearTabla_CheckFalla(p)
    \/ CrearTabla_Check(p)
    \/ CrearTabla_Drop(p)
    \/ CrearTabla_Rename(p)
    \/ CrearTabla_Create(p)
    \/ CopyParquet(p)
    \/ Cargar_Retorno(p)

\* ghost: the version of the last load of each table that returned
\* exito = True (0: none yet)
UltimaTras(p) ==
    IF pc[p] = "retorno" /\ cur[p].stats.exito
    THEN [ ultima EXCEPT ![cur[p].stats.tabla] = cur[p].ver ]
    ELSE ultima

NextCarga ==
    \E p \in Secuencial :
       PasoCarga(p) /\ UNCHANGED gc /\ ultima' = UltimaTras(p)

(***************************************************************************)
(* Two loader processes at once (two runs of 4_cargar_snowflake.py against *)
(* the same schema), their statements interleaved.                         *)
(***************************************************************************)
\* the tables of the schema named n
Llamadas(w, n) == { x \in w : x.nombre = n }

\* the step p took was a statement failing for a reason of its own
FalloPropio(p) ==
    LET t == cur[p].stats.tabla
    IN  \/ pc[p] = "leer" /\ cur'[p].stats.error # None
        \/ pc[p] = "check" /\ pc'[p] = "retorno"
        \/ pc[p] = "drop" /\ Existe(wh, tabla_old(t)) /\ wh' = wh
        \/ pc[p] = "rename" /\ AlterRenamePuede(wh, t, tabla_old(t)) /\ wh' = wh
        \/ pc[p] = "create" /\ CreateTablePuede(wh, t) /\ wh' = wh
        \/ pc[p] = "copy" /\ Existe(wh, t) /\ cur'[p].stats.error # None

\* the step changed the table of q's load, or its backup, while q was
\* between its existence check and its return
Interfiere(q) ==
    LET t == cur[q].stats.tabla
    IN  /\ pc[q] \in {"drop", "rename", "create", "copy", "retorno"}
        /\ \/ Llamadas(wh', t) # Llamadas(wh, t)
           \/ Llamadas(wh', tabla_old(t)) # Llamadas(wh, tabla_old(t))

GcTras(p) ==
    [ q \in Procs |->
        IF q = p
        THEN IF pc[p] = "bucle" THEN GcInicial
             ELSE [ gc[p] EXCEPT !.con_falla = @ \/ FalloPropio(p) ]
        ELSE [ gc[q] EXCEPT !.interferida = @ \/ Interfiere(q) ] ]

\* the staged file both processes find in the folder of CHILE
ArchivoDisputado == [pais |-> "CHILE", nombre |-> << "A", "_", "B", SUF >>]

PasoConcurrente(p) ==
    /\ PasoCarga(p)
    /\ nver' <= MaxCargas
    /\ Rango(plan'[p]) \subseteq {ArchivoDisputado}
    /\ cur'[p].stats.filas_leidas <= 1
    /\ (p # 1 /\ pc[p] = "fin") => pc'[p] = "fin"
    /\ gc' = GcTras(p)
    /\ ultima' = UltimaTras(p)

NextConcurrente == \E p \in Procs : PasoConcurrente(p)


(***************************************************************************)
(* The Fallback Dispatcher: ejecutar_sp and ejecutar_con_fallback.         *)
(* A DataFrame is [tipo, args]: "None" is Python's None, "vacio" the empty *)
(* DataFrame, "sp" the rows of the procedure, "alt" the rows the           *)
(* alternative function computed from the arguments it was called with.    *)
(***************************************************************************)
DfNone == [ tipo |-> "None", args |-> << >> ]
DfVacio == [ tipo |-> "vacio", args |-> << >> ]

\* params: List = None; dado = FALSE is the default None
ParamsPosibles ==
    { [dado |-> FALSE, vals |-> << >>], [dado |-> TRUE, vals |-> << >>],
      [dado |-> TRUE, vals |-> << "p1" >>],
      [dado |-> TRUE, vals |-> << "p1", "p2" >>] }

\* truth value of `params` in `if params:`
Verdadero(params) == params.dado /\ params.vals # << >>

\* func_alternativa: not supplied, or what the supplied function does
FuncPosibles == { "None", "devuelve_df", "devuelve_None", "lanza" }

\* what the call meets on the country's server
Entornos ==
    [ conecta : BOOLEAN, existe : BOOLEAN,
      error : {"ninguno", "programacion", "otro"}, filas : {0, 1} ]

\* ejecutar_sp: the DataFrame it returns and, as motivo, the branch taken
ejecutar_sp(pais, sp_name, params, e) ==
    IF ~e.conecta
      THEN [ df |-> DfNone, motivo |-> "sin_conexion" ]
    ELSE IF ~e.existe
      THEN [ df |-> DfNone, motivo |-> "no_existe" ]
    ELSE IF e.error = "programacion"
      THEN [ df |-> DfNone, motivo |-> "error_programacion" ]
    ELSE IF e.error = "otro"
      THEN [ df |-> DfNone, motivo |-> "error_otro" ]
    ELSE IF e.filas > 0
      THEN [ df |-> [ tipo |-> "sp", args |-> << pais, sp_name >> \o params.vals ],
             motivo |-> "ok" ]
    ELSE [ df |-> DfVacio, motivo |-> "ok" ]

\* if df is None and func_alternativa is not None
UsaAlternativa(df, func) == df = DfNone /\ func # "None"

\* variant of ArgsAlternativa: the country is not passed on
ArgsSinPais(pais, params) == params.vals

\* func_alternativa(pais, *params) if params else func_alternativa(pais)
ArgsAlternativa(pais, params) ==
    IF Verdadero(params) THEN << pais >> \o params.vals ELSE << pais >>

\* the value of the try block around the alternative function
ResultadoAlternativa(func, args) ==
    CASE func = "devuelve_df"   -> [ tipo |-> "alt", args |-> args ]
      [] func = "devuelve_None" -> DfNone
      [] OTHER                  -> DfNone    \* raised: return None

FbInactivo ==
    [ pc |-> "listo", pais |-> "CHILE", sp_name |-> "sp_ventas",
      params |-> [dado |-> FALSE, vals |-> << >>], func |-> "None",
      remoto |-> "-", llamadas |-> << >>, df |-> DfNone ]

\* ejecutar_con_fallback(pais, sp_name, params, func_alternativa) is called
Fb_Llamar ==
    /\ fb.pc \in {"listo", "hecho"}
    /\ \E pais \in Rango(PAISES), sp \in {"sp_ventas", "sp_clientes"},
          params \in ParamsPosibles, func \in FuncPosibles :
          fb' = [ FbInactivo EXCEPT !.pc = "try_remote", !.pais = pais,
                                    !.sp_name = sp, !.params = params,
                                    !.func = func ]
    /\ UNCHANGED << varsCarga, resto, ean, dis, mp, ex >>

\* df = ejecutar_sp(pais, sp_name, params)
Fb_TryRemote ==
    /\ fb.pc = "try_remote"
    /\ \E e \in Entornos :
          LET r == ejecutar_sp(fb.pais, fb.sp_name, fb.params, e)
          IN  fb' = [ fb EXCEPT !.df = r.df, !.remoto = r.motivo,
                                !.pc = IF UsaAlternativa(r.df, fb.func)
                                       THEN "try_fallback" ELSE "hecho" ]
    /\ UNCHANGED << varsCarga, resto, ean, dis, mp, ex >>

\* df = func_alternativa(...), or return None when it raises
Fb_TryFallback ==
    /\ fb.pc = "try_fallback"
    /\ LET args == ArgsAlternativa(fb.pais, fb.params)
       IN  fb' = [ fb EXCEPT !.llamadas = Append(@, args),
                             !.df = ResultadoAlternativa(fb.func, args),
                             !.pc = "hecho" ]
    /\ UNCHANGED << varsCarga, resto, ean, dis, mp, ex >>

NextFallback == Fb_Llamar \/ Fb_TryRemote \/ Fb_TryFallback

(***************************************************************************)
(* Extracts (DataFrames): [columns, rows]; columns is the sequence of      *)
(* labels, rows a sequence of rows, a row a sequence of cells aligned with *)
(* the labels.  A cell is a text (sequence of characters) or NaN.          *)
(***************************************************************************)
NaN == << "<NaN>" >>

\* str.strip() and SQL RTRIM: surrounding / trailing blanks
StrStrip(texto) == Strip(texto, " ")
RTrim(texto) == QuitarDer(texto, " ")

\* least position of a label
IndiceDe(cols, nombre) ==
    CHOOSE i \in 1..Len(cols) :
        cols[i] = nombre /\ \A j \in 1..(i - 1) : cols[j] # nombre

\* df[nombre] = F(row): overwrites the column, or appends it as the last one
AsignarColumna(df, nombre, F(_)) ==
    IF nombre \in Rango(df.columns)
    THEN [ df EXCEPT !.rows =
             [ i \in 1..Len(df.rows) |->
                 [ df.rows[i] EXCEPT ![IndiceDe(df.columns, nombre)] = F(df.rows[i]) ] ] ]
    ELSE [ columns |-> Append(df.columns, nombre),
           rows |-> [ i \in 1..Len(df.rows) |-> Append(df.rows[i], F(df.rows[i])) ] ]

RECURSIVE Posiciones(_, _, _)
\* the positions of cols, from i on, whose label is not in nombres
Posiciones(cols, nombres, i) ==
    IF i > Len(cols) THEN << >>
    ELSE (IF cols[i] \in nombres THEN << >> ELSE << i >>)
           \o Posiciones(cols, nombres, i + 1)

\* df.drop(columns=nombres, errors='ignore')
DropColumns(df, nombres) ==
    LET pos == Posiciones(df.columns, nombres, 1)
    IN  [ columns |-> [ k \in 1..Len(pos) |-> df.columns[pos[k]] ],
          rows |-> [ i \in 1..Len(df.rows) |->
                       [ k \in 1..Len(pos) |-> df.rows[i][pos[k]] ] ] ]

\* pandas' suffixes=('_x', '_y') for labels present on both sides
Sufijar(cols, otras, sufijo) ==
    [ i \in 1..Len(cols) |->
        IF cols[i] \in Rango(otras) THEN cols[i] \o sufijo ELSE cols[i] ]

\* the rows of right that join a row of left, in right's order
Parejas(fila, left_cols, left_on, right, right_on) ==
    SelectSeq(right.rows,
              LAMBDA r : r[IndiceDe(right.columns, right_on)]
                           = fila[IndiceDe(left_cols, left_on)])

\* left.merge(right, left_on=.., right_on=.., how='left'): every left row, in
\* order, once per joining right row, or once with NaN when none joins
Merge(left, right, left_on, right_on) ==
    LET nulos == [ k \in 1..Len(right.columns) |-> NaN ]
        Filas(fila) ==
            LET m == Parejas(fila, left.columns, left_on, right, right_on)
            IN  IF m = << >> THEN << fila \o nulos >>
                ELSE [ k \in 1..Len(m) |-> fila \o m[k] ]
    IN  [ columns |-> Sufijar(left.columns, right.columns, "_x")
                        \o Sufijar(right.columns, left.columns, "_y"),
          rows |-> Concatenar([ i \in 1..Len(left.rows) |-> Filas(left.rows[i]) ]) ]

\* df.empty
Empty(df) == df.rows = << >> \/ df.columns = << >>

(***************************************************************************)
(* The EAN Enrichment Join: agregar_columna_ean, in its two copies         *)
(* ("app": app_reportes_sql.py, "etl": etl/1_descargar_sql_server.py).     *)
(* "Co'digo de producto" stands for the label with the accented o.         *)
(***************************************************************************)
posibles_nombres(impl) ==
    << "Co'digo de producto", "CodigoProducto", "cProducto", "cProductoVta",
       "ITEMNMBR", "Codigo Producto" >>
      \o (IF impl = "app" THEN << "Codigo de producto" >> ELSE << >>)

\* for nombre in posibles_nombres: if nombre in df.columns: ..; break
\* ("" when the loop finds none: col_producto stays None)
ColProducto(df, impl) ==
    LET pn == posibles_nombres(impl)
        hay == { i \in 1..Len(pn) : pn[i] \in Rango(df.columns) }
    IN  IF hay = {} THEN ""
        ELSE pn[CHOOSE i \in hay : \A j \in hay : i <= j]

\* {'CHILE': 'CL', 'PERU': 'PE', ...}.get(pais, 'CL')
codigo_pais(pais) == IF pais = "PERU" THEN "PE" ELSE "CL"

\* SELECT DISTINCT RTRIM(cProducto), RTRIM(cProductoEquiv) FROM
\* maeGC_ProductoEquiv WHERE cEquivalencia = 'EAN12' AND cPais = '{codigo_pais}'
QueryEan(tabla_equiv, pais) ==
    { << RTrim(e.cProducto), RTrim(e.cProductoEquiv) >> :
        e \in { x \in tabla_equiv :
                  x.cEquivalencia = "EAN12" /\ x.cPais = codigo_pais(pais) } }

\* variant of CodigoLimpio: the product code is compared as delivered
CodigoSinLimpiar(celda) == celda

\* df[col_producto].astype(str).str.strip()
CodigoLimpio(celda) == StrStrip(celda)

\* variant of ConEanVacio: the new column holds no value at all
ConEanNulo(df) == AsignarColumna(df, "EAN", LAMBDA fila : NaN)

\* df['EAN'] = ''
ConEanVacio(df) == AsignarColumna(df, "EAN", LAMBDA fila : << >>)

\* the branch `if rows_ean and columns_ean:` up to fillna; a missing 'EAN'
\* label raises KeyError, which the except clause answers with df['EAN'] = ''
CaminoMerge(df, col_producto, rows_ean) ==
    LET left == AsignarColumna(df, "_codigo_limpio",
                   LAMBDA fila : CodigoLimpio(fila[IndiceDe(df.columns, col_producto)]))
        df_ean == [ columns |-> << "cProducto", "EAN" >>,
                    rows |-> [ i \in 1..Len(rows_ean) |->
                                 << StrStrip(rows_ean[i][1]), rows_ean[i][2] >> ] ]
        unido == Merge(left, df_ean, "_codigo_limpio", "cProducto")
        d == DropColumns(unido, {"_codigo_limpio", "cProducto"})
    IN  IF "EAN" \in Rango(d.columns)
        THEN AsignarColumna(d, "EAN",
                LAMBDA fila : IF fila[IndiceDe(d.columns, "EAN")] = NaN
                              THEN << >> ELSE fila[IndiceDe(d.columns, "EAN")])
        ELSE ConEanVacio(d)

\* conexion: "ok", "sin_conexion" (get_connection gave None) or
\* "error_consulta" (the cursor raised); rows_ean: cursor.fetchall()
agregar_columna_ean(df, impl, conexion, rows_ean) ==
    IF Empty(df) THEN (IF impl = "app" THEN df ELSE ConEanVacio(df))
    ELSE IF ColProducto(df, impl) = "" THEN ConEanVacio(df)
    ELSE IF conexion # "ok" THEN ConEanVacio(df)
    ELSE IF rows_ean = << >> THEN ConEanVacio(df)
    ELSE CaminoMerge(df, ColProducto(df, impl), rows_ean)

(***************************************************************************)
(* Inputs of the enrichment.                                               *)
(***************************************************************************)
\* product codes as the source delivers them (CHAR columns come padded)
Codigos == { << "1" >>, << "1", " " >>, << "9" >> }

\* rows of dbo.maeGC_ProductoEquiv the table may hold
Equivalencias ==
    { [cProducto |-> << "1" >>, cProductoEquiv |-> << "E1" >>,
       cEquivalencia |-> "EAN12", cPais |-> "CL"],
      [cProducto |-> << "1" >>, cProductoEquiv |-> << "E2" >>,
       cEquivalencia |-> "EAN12", cPais |-> "CL"],
      [cProducto |-> << "1", " " >>, cProductoEquiv |-> << "E1" >>,
       cEquivalencia |-> "EAN12", cPais |-> "CL"],
      [cProducto |-> << "1" >>, cProductoEquiv |-> << "E3" >>,
       cEquivalencia |-> "EAN12", cPais |-> "PE"],
      [cProducto |-> << "1" >>, cProductoEquiv |-> << "E4" >>,
       cEquivalencia |-> "DUN14", cPais |-> "CL"] }

\* label lists of the extracts: [cols, var] with var the column whose cells
\* vary over Codigos; the other column holds `otro`, or the row number
ColumnasPosibles ==
    { [cols |-> << "Fecha", "cProductoVta" >>, var |-> 2, otro |-> << >>],
      [cols |-> << "cProducto", "Monto" >>, var |-> 1, otro |-> << >>],
      [cols |-> << "Fecha", "Monto" >>, var |-> 2, otro |-> << >>],
      [cols |-> << "cProductoVta", "CodigoProducto" >>, var |-> 2,
       otro |-> << "1" >>] }

Armar(c, cods) ==
    [ columns |-> c.cols,
      rows |-> [ i \in 1..Len(cods) |->
                   LET o == IF c.otro = << >> THEN << ToString(i) >> ELSE c.otro
                   IN  IF c.var = 1 THEN << cods[i], o >> ELSE << o, cods[i] >> ] ]

SeqsHasta(S, n) == UNION { [1..k -> S] : k \in 0..n }

\* the orders in which a result set may arrive (no ORDER BY)
Ordenes(S) ==
    { q \in [1..Cardinality(S) -> S] :
        \A i, j \in 1..Cardinality(S) : i # j => q[i] # q[j] }

\* variant of EnriquecerSiFalta: the caller does not look at the labels
EnriquecerSinMirar(df, impl, conexion, rows_ean) ==
    agregar_columna_ean(df, impl, conexion, rows_ean)

\* the enrichment as ejecutar_sp invokes it:
\* if ... 'EAN' not in df.columns: df = agregar_columna_ean(df, pais)
EnriquecerSiFalta(df, impl, conexion, rows_ean) ==
    IF "EAN" \in Rango(df.columns) THEN df
    ELSE agregar_columna_ean(df, impl, conexion, rows_ean)

EanInactivo ==
    [ pc |-> "listo", impl |-> "app", pais |-> "CHILE",
      df |-> [columns |-> << >>, rows |-> << >>], tabla_equiv |-> {},
      conexion |-> "ok", rows_ean |-> << >>,
      out |-> [columns |-> << >>, rows |-> << >>],
      conexion2 |-> "ok", out2 |-> [columns |-> << >>, rows |-> << >>] ]

Ean_Llamar(impl) ==
    /\ ean.pc = "listo"
    /\ \E c \in ColumnasPosibles, cods \in SeqsHasta(Codigos, MaxFilasEan),
       pais \in Rango(PAISES), te \in SUBSET Equivalencias,
       conexion \in {"ok", "sin_conexion", "error_consulta"} :
       \E orden \in Ordenes(QueryEan(te, pais)) :
          LET df == Armar(c, cods)
              rows_ean == IF conexion = "ok" THEN orden ELSE << >>
          IN  ean' = [ pc |-> "hecho", impl |-> impl, pais |-> pais, df |-> df,
                       tabla_equiv |-> te, conexion |-> conexion,
                       rows_ean |-> rows_ean,
                       out |-> agregar_columna_ean(df, impl, conexion, rows_ean),
                       conexion2 |-> "ok",
                       out2 |-> [columns |-> << >>, rows |-> << >>] ]

\* agregar_columna_ean of app_reportes_sql.py
Ean_App == Ean_Llamar("app") /\ UNCHANGED << varsCarga, resto, fb, dis, mp, ex >>

\* agregar_columna_ean of etl/1_descargar_sql_server.py
Ean_Etl == Ean_Llamar("etl") /\ UNCHANGED << varsCarga, resto, fb, dis, mp, ex >>

\* the enrichment invoked once more, on the extract it returned
Ean_Repetir ==
    /\ ean.pc = "hecho"
    /\ \E conexion \in {"ok", "sin_conexion", "error_consulta"} :
          ean' = [ ean EXCEPT
                     !.pc = "repetido", !.conexion2 = conexion,
                     !.out2 = EnriquecerSiFalta(ean.out, ean.impl, conexion,
                                 IF conexion = "ok" THEN ean.rows_ean ELSE << >>) ]
    /\ UNCHANGED << varsCarga, resto, fb, dis, mp, ex >>

NextEan == Ean_App \/ Ean_Etl \/ Ean_Repetir

(***************************************************************************)
(* The Column Disambiguator.                                               *)
(***************************************************************************)
\* f"{col}_{k}"
ConSufijo(col, k) == col \o "_" \o ToString(k)

\* the for loop of desambiguar_columnas: contadores is the dict of counters,
\* nuevas the list nuevas_columnas built so far
RECURSIVE BucleDesambiguar(_, _, _)
BucleDesambiguar(columnas, contadores, nuevas) ==
    IF columnas = << >> THEN nuevas
    ELSE LET col == Head(columnas)
         IN  IF col \in DOMAIN contadores
             THEN BucleDesambiguar(Tail(columnas),
                      [contadores EXCEPT ![col] = @ + 1],
                      Append(nuevas, ConSufijo(col, contadores[col] + 1)))
             ELSE BucleDesambiguar(Tail(columnas),
                      [ c \in DOMAIN contadores \cup {col} |->
                          IF c = col THEN 0 ELSE contadores[c] ],
                      Append(nuevas, col))

\* desambiguar_columnas (etl/1_descargar_sql_server.py)
desambiguar_columnas(df) ==
    IF Empty(df) THEN df
    ELSE [ df EXCEPT !.columns = BucleDesambiguar(df.columns, << >>, << >>) ]

\* the ascending positions of cols holding etiqueta
RECURSIVE PosicionesDe(_, _, _)
PosicionesDe(cols, etiqueta, i) ==
    IF i > Len(cols) THEN << >>
    ELSE (IF cols[i] = etiqueta THEN << i >> ELSE << >>)
           \o PosicionesDe(cols, etiqueta, i + 1)

\* cols[cols.duplicated()].unique(): the labels that repeat an earlier one,
\* each once, in the order of their first repeat
RECURSIVE Duplicados(_, _, _)
Duplicados(cols, i, vistos) ==
    IF i > Len(cols) THEN << >>
    ELSE IF (\E j \in 1..(i - 1) : cols[j] = cols[i]) /\ cols[i] \notin vistos
         THEN << cols[i] >> \o Duplicados(cols, i + 1, vistos \cup {cols[i]})
         ELSE Duplicados(cols, i + 1, vistos)

\* for i, idx in enumerate(dup_indices[1:], start=1): cols.iloc[idx] = f"{dup}_{i}"
RenombrarDuplicado(cols, dup) ==
    LET dup_indices == PosicionesDe(cols, dup, 1)
    IN  [ n \in 1..Len(cols) |->
            IF \E i \in 2..Len(dup_indices) : dup_indices[i] = n
            THEN ConSufijo(dup, (CHOOSE i \in 2..Len(dup_indices) :
                                    dup_indices[i] = n) - 1)
            ELSE cols[n] ]

\* for dup in cols[cols.duplicated()].unique(): ..  (cols is renamed in place)
RECURSIVE BucleNormalizar(_, _)
BucleNormalizar(cols, dups) ==
    IF dups = << >> THEN cols
    ELSE BucleNormalizar(RenombrarDuplicado(cols, Head(dups)), Tail(dups))

\* normalizar_columnas_duplicadas (app_reportes_sql.py)
normalizar_columnas_duplicadas(df) ==
    [ df EXCEPT !.columns =
        BucleNormalizar(df.columns, Duplicados(df.columns, 1, {})) ]

\* column labels the source's result sets may carry
Etiquetas == { "A", "B", "A_1" }

\* an extract with the given labels and n rows
Extracto(cols, n) ==
    [ columns |-> cols,
      rows |-> [ i \in 1..n |-> [ j \in 1..Len(cols) |-> << ToString(i), ToString(j) >> ] ] ]

DisInactivo ==
    [ pc |-> "listo", impl |-> "etl",
      df |-> [columns |-> << >>, rows |-> << >>],
      out |-> [columns |-> << >>, rows |-> << >>] ]

\* desambiguar_columnas is applied to an extract
Dis_Etl ==
    /\ dis.pc = "listo"
    /\ \E cols \in SeqsHasta(Etiquetas, MaxColumnas), n \in {0, 1} :
          dis' = [ pc |-> "hecho", impl |-> "etl", df |-> Extracto(cols, n),
                   out |-> desambiguar_columnas(Extracto(cols, n)) ]
    /\ UNCHANGED << varsCarga, resto, fb, ean, mp, ex >>

\* normalizar_columnas_duplicadas is applied to an extract
Dis_App ==
    /\ dis.pc = "listo"
    /\ \E cols \in SeqsHasta(Etiquetas, MaxColumnas), n \in {0, 1} :
          dis' = [ pc |-> "hecho", impl |-> "app", df |-> Extracto(cols, n),
                   out |-> normalizar_columnas_duplicadas(Extracto(cols, n)) ]
    /\ UNCHANGED << varsCarga, resto, fb, ean, mp, ex >>

NextDesambiguar == Dis_Etl \/ Dis_App

(***************************************************************************)
(* The Extraction Engine and the Date-Column Detector, in their two        *)
(* copies ("app": app_reportes_sql.py, "etl": etl/1_descargar_sql_server). *)
(* A timestamp is [nulo, dia, hora]; a source row is                       *)
(* << id, dAlta, dFecha, cProductoVta >>.                                  *)
(***************************************************************************)
\* timedelta(days=36*30)
DiasVentana == 36 * 30

Fecha(d, h) == [ nulo |-> FALSE, dia |-> d, hora |-> h ]
FechaNula == [ nulo |-> TRUE, dia |-> 0, hora |-> 0 ]

\* datetime.now(): the day after the window's first day, at two times of day
AhoraPosibles == { Fecha(DiasVentana + 1, h) : h \in {0, 1} }

\* DATA_TYPE IN ('datetime', 'date', 'smalldatetime', 'datetime2')
TiposTemporales == {"datetime", "date", "smalldatetime", "datetime2"}

\* column declarations of a source table, in ORDINAL_POSITION order
EsquemasPosibles ==
    { << [nombre |-> "id", tipo |-> "int"], [nombre |-> "dAlta", tipo |-> "date"],
         [nombre |-> "dFecha", tipo |-> "datetime"],
         [nombre |-> "cProductoVta", tipo |-> "char"] >>,
      << [nombre |-> "id", tipo |-> "int"], [nombre |-> "dAlta", tipo |-> "varchar"],
         [nombre |-> "dFecha", tipo |-> "datetime2"],
         [nombre |-> "cProductoVta", tipo |-> "char"] >>,
      << [nombre |-> "id", tipo |-> "int"], [nombre |-> "dAlta", tipo |-> "varchar"],
         [nombre |-> "dFecha", tipo |-> "varchar"],
         [nombre |-> "cProductoVta", tipo |-> "char"] >> }

\* SELECT TOP 1 COLUMN_NAME ... ORDER BY ORDINAL_POSITION
RECURSIVE PrimerTemporal(_)
PrimerTemporal(esquema) ==
    IF esquema = << >> THEN None
    ELSE IF Head(esquema).tipo \in TiposTemporales THEN Head(esquema).nombre
    ELSE PrimerTemporal(Tail(esquema))

\* the static per-table lookup of tabla_metadata (not part of the sources):
\* METADATA_DISPONIBLE and what obtener_columna_fecha_filtro(tabla) declares
MetadatosPosibles ==
    { [disponible |-> FALSE, declarada |-> None],
      [disponible |-> TRUE, declarada |-> None],
      [disponible |-> TRUE, declarada |-> "dFecha"] }
obtener_columna_fecha_filtro(meta) == meta.declarada

\* detectar_columna_fecha: the column it returns (None: none) and how many
\* connections it asked for; c.conecta: get_connection gives a connection,
\* c.catalogo: the catalogue query runs
detectar_columna_fecha(impl, meta, c, esquema) ==
    IF impl = "app" /\ meta.disponible
         /\ obtener_columna_fecha_filtro(meta) # None
      THEN [ col |-> obtener_columna_fecha_filtro(meta), conexiones |-> 0 ]
    ELSE IF ~c.conecta THEN [ col |-> None, conexiones |-> 1 ]
    ELSE IF ~c.catalogo THEN [ col |-> None, conexiones |-> 1 ]
    ELSE [ col |-> PrimerTemporal(esquema), conexiones |-> 1 ]

\* the rows a source table may hold, in the order the server delivers them
FilasFuente ==
    << << "r1", Fecha(1, 0), Fecha(0, 1), << "1" >> >>,
       << "r2", Fecha(0, 1), Fecha(1, 0), << "1", " " >> >>,
       << "r3", Fecha(1, 1), FechaNula, << "9" >> >>,
       << "r4", Fecha(2, 0), Fecha(2, 0), << "1" >> >> >>
TablasFuente ==
    { SelectSeq(FilasFuente, LAMBDA f : f[1] \in ids) :
        ids \in SUBSET {"r1", "r2", "r3", "r4"} }
ColumnasFuente == << "id", "dAlta", "dFecha", "cProductoVta" >>

\* the tables extracted: the invoice-detail table gets the fused EAN join
TABLAS_BASE == << "maeGC_Producto", "movGC_VtDocumentoVtaDet" >>
Upper(tabla) ==
    IF tabla = "movGC_VtDocumentoVtaDet" THEN "MOVGC_VTDOCUMENTOVTADET"
    ELSE "MAEGC_PRODUCTO"

\* t - timedelta(days=n)
RestarDias(t, n) == [ t EXCEPT !.dia = @ - n ]
\* strftime('%Y-%m-%d'): the date without the time of day; as a literal
\* compared with a timestamp it stands for midnight
strftime_sin_truncar(t) == t
strftime_fecha(t) == [ t EXCEPT !.hora = 0 ]

\* timestamp >= literal; NULL compares as unknown
FechaMayorIgual(f, lit) ==
    /\ ~f.nulo
    /\ f.dia > lit.dia \/ (f.dia = lit.dia /\ f.hora >= lit.hora)

SinFiltro == [ col |-> None, desde |-> FechaNula ]

\* the query text descargar_tabla builds
ConstruirQuery(tabla, columna_fecha, ahora) ==
    [ tabla |-> tabla,
      con_ean |-> Upper(tabla) = "MOVGC_VTDOCUMENTOVTADET",
      filtro |-> IF columna_fecha # None /\ columna_fecha # ""
                 THEN [ col |-> columna_fecha,
                        desde |-> strftime_fecha(RestarDias(ahora, DiasVentana)) ]
                 ELSE SinFiltro ]

\* LEFT JOIN EAN_LOOKUP e ON RTRIM(d.cProductoVta) = e.cProducto, with
\* COALESCE(e.EAN, ''): one output row per matching lookup row
RECURSIVE UnirPor(_, _, _)
UnirPor(filas, pos, lookup) ==
    IF filas = << >> THEN << >>
    ELSE LET f == Head(filas)
             m == SelectSeq(lookup, LAMBDA e : e[1] = RTrim(f[pos]))
         IN  (IF m = << >> THEN << Append(f, << >>) >>
              ELSE [ i \in 1..Len(m) |-> Append(f, m[i][2]) ])
             \o UnirPor(Tail(filas), pos, lookup)

UnirEan(filas, lookup) ==
    UnirPor(filas, IndiceDe(ColumnasFuente, "cProductoVta"), lookup)

\* what the server answers to the query
EjecutarQuery(query, filas, lookup) ==
    LET pos == IndiceDe(ColumnasFuente, query.filtro.col)
        sel == IF query.filtro.col = None THEN filas
               ELSE SelectSeq(filas,
                      LAMBDA f : FechaMayorIgual(f[pos], query.filtro.desde))
    IN  IF query.con_ean
        THEN [ columns |-> Append(ColumnasFuente, "EAN"),
               rows |-> UnirEan(sel, lookup) ]
        ELSE [ columns |-> ColumnasFuente, rows |-> sel ]

\* the lookup rows of the EAN_LOOKUP expression, RTRIMmed
LookupsPosibles ==
    { << >>, << << << "1" >>, << "E1" >> >> >>,
      << << << "1" >>, << "E1" >> >>, << << "1" >>, << "E2" >> >> >> }

\* the surroundings of one extraction
EntornosTabla ==
    [ conecta : BOOLEAN, conecta_det : BOOLEAN, catalogo : BOOLEAN,
      ejecucion : {"ok", "falla"}, meta : MetadatosPosibles,
      esquema : EsquemasPosibles, ahora : AhoraPosibles,
      filas : TablasFuente, lookup : LookupsPosibles ]

SinDf == [ columns |-> << >>, rows |-> << >> ]
SinQuery == [ tabla |-> "", con_ean |-> FALSE, filtro |-> SinFiltro ]
SinDeteccion == [ col |-> None, conexiones |-> 0 ]

\* descargar_tabla: none = TRUE is the failure value None; det and query
\* are what the detector returned and the query issued
descargar_tabla(impl, pais, tabla, e) ==
    IF ~e.conecta
    THEN [ none |-> TRUE, df |-> SinDf, det |-> SinDeteccion, query |-> SinQuery ]
    ELSE LET det == detectar_columna_fecha(impl, e.meta,
                       [conecta |-> e.conecta_det, catalogo |-> e.catalogo],
                       e.esquema)
             query == ConstruirQuery(tabla, det.col, e.ahora)
             res == EjecutarQuery(query, e.filas, e.lookup)
         IN  IF e.ejecucion # "ok"
             THEN [ none |-> TRUE, df |-> SinDf, det |-> det, query |-> query ]
             ELSE IF res.rows # << >> /\ res.columns # << >>
             THEN [ none |-> FALSE,
                    df |-> IF impl = "app"
                           THEN normalizar_columnas_duplicadas(res)
                           ELSE desambiguar_columnas(res),
                    det |-> det, query |-> query ]
             ELSE [ none |-> FALSE, df |-> SinDf, det |-> det, query |-> query ]

\* the surroundings of one stored-procedure call; resultset = FALSE: the
\* procedure runs and delivers no result set (cursor.description is None,
\* and pyodbc's fetchmany then raises ProgrammingError)
EntornosSp ==
    { x \in [ conecta : BOOLEAN, existe : BOOLEAN,
              ejecucion : {"ok", "programacion", "otro"},
              resultset : BOOLEAN, filas : {0, 1} ] :
        ~x.resultset => x.filas = 0 }

\* the same surroundings as ejecutar_sp of app_reportes_sql.py meets them
EntornoApp(x) ==
    [ conecta |-> x.conecta, existe |-> x.existe, filas |-> x.filas,
      error |-> IF x.ejecucion # "ok" THEN x.ejecucion
                ELSE IF ~x.resultset THEN "programacion"
                ELSE "ninguno" ]

\* ejecutar_sp of etl/1_descargar_sql_server.py
ejecutar_sp_etl(pais, sp_name, params, x) ==
    IF ~x.conecta
      THEN [ df |-> DfNone, motivo |-> "sin_conexion" ]
    ELSE IF ~x.existe
      THEN [ df |-> DfNone, motivo |-> "no_existe" ]
    ELSE IF x.ejecucion # "ok" \/ ~x.resultset
      THEN [ df |-> DfNone, motivo |-> "error_otro" ]
    ELSE IF x.filas > 0
      THEN [ df |-> [ tipo |-> "sp", args |-> << pais, sp_name >> \o params.vals ],
             motivo |-> "ok" ]
    ELSE [ df |-> DfVacio, motivo |-> "ok" ]

EntornoTablaNulo ==
    [ conecta |-> FALSE, conecta_det |-> FALSE, catalogo |-> FALSE,
      ejecucion |-> "falla", meta |-> [disponible |-> FALSE, declarada |-> None],
      esquema |-> << >>, ahora |-> FechaNula, filas |-> << >>, lookup |-> << >> ]
EntornoSpNulo ==
    [ conecta |-> FALSE, existe |-> FALSE, ejecucion |-> "ok",
      resultset |-> FALSE, filas |-> 0 ]

ExInactivo ==
    [ pc |-> "listo", op |-> "", impl |-> "", pais |-> "", tabla |-> "",
      e |-> EntornoTablaNulo, x |-> EntornoSpNulo,
      det |-> SinDeteccion,
      out |-> [ none |-> TRUE, df |-> SinDf, det |-> SinDeteccion,
                query |-> SinQuery ],
      sp |-> [ df |-> DfNone, motivo |-> "" ],
      alcanzable |-> [ p \in Rango(PAISES) |-> FALSE ],
      cola |-> << >>, primera_conexion |-> TRUE, abortado |-> FALSE,
      intentos |-> << >>, fallidos |-> { }, resumen |-> << >> ]

\* detectar_columna_fecha is called
Ex_Detectar ==
    /\ ex.pc = "listo"
    /\ \E impl \in {"app", "etl"}, e \in EntornosTabla :
          ex' = [ ex EXCEPT !.pc = "hecho", !.op = "detectar", !.impl = impl,
                    !.e = [ e EXCEPT !.filas = << >>, !.lookup = << >>,
                                     !.ahora = FechaNula, !.conecta = FALSE,
                                     !.ejecucion = "falla" ],
                    !.det = detectar_columna_fecha(impl, e.meta,
                               [conecta |-> e.conecta_det, catalogo |-> e.catalogo],
                               e.esquema) ]
    /\ UNCHANGED << varsCarga, resto, fb, ean, dis, mp >>

\* descargar_tabla is called
Ex_DescargarTabla ==
    /\ ex.pc = "listo"
    /\ \E impl \in {"app", "etl"}, tabla \in Rango(TABLAS_BASE),
          e \in EntornosTabla :
          ex' = [ ex EXCEPT !.pc = "hecho", !.op = "tabla", !.impl = impl,
                    !.pais = "CHILE", !.tabla = tabla, !.e = e,
                    !.out = descargar_tabla(impl, "CHILE", tabla, e) ]
    /\ UNCHANGED << varsCarga, resto, fb, ean, dis, mp >>

\* ejecutar_sp is called
Ex_EjecutarSp ==
    /\ ex.pc = "listo"
    /\ \E impl \in {"app", "etl"}, x \in EntornosSp, params \in ParamsPosibles :
          ex' = [ ex EXCEPT !.pc = "hecho", !.op = "sp", !.impl = impl,
                    !.pais = "CHILE", !.x = x,
                    !.sp = IF impl = "app"
                           THEN ejecutar_sp("CHILE", "sp_stock", params, EntornoApp(x))
                           ELSE ejecutar_sp_etl("CHILE", "sp_stock", params, x) ]
    /\ UNCHANGED << varsCarga, resto, fb, ean, dis, mp >>

\* the multi-country run: descargar_todas_las_tablas (app) and the
\* "tablas base" mode of the extractor page (etl)
Operaciones ==
    << << "CHILE", TABLAS_BASE[1] >>, << "CHILE", TABLAS_BASE[2] >>,
       << "PERU", TABLAS_BASE[1] >>, << "PERU", TABLAS_BASE[2] >> >>

\* the surroundings of one operation of the run
EntornosOperacion(alcanza) ==
    { e \in EntornosTabla :
        /\ e.conecta = alcanza /\ e.conecta_det = alcanza /\ e.catalogo
        /\ e.meta = [disponible |-> FALSE, declarada |-> None]
        /\ e.esquema[2].tipo = "date" /\ e.ahora.hora = 0
        /\ e.filas \in { << >>, << FilasFuente[4] >> }
        /\ e.lookup = << >> }

\* the record the app's run appends to resumen for an operation
RegistroApp(op, r) ==
    [ pais |-> op[1], tabla |-> op[2],
      estado |-> IF ~r.none /\ ~Empty(r.df) THEN "ok"
                 ELSE IF ~r.none THEN "sin_datos"
                 ELSE "error" ]

\* what the etl's run appends to resultados: successful downloads only
RegistrosEtl(op, r) ==
    IF ~r.none /\ ~Empty(r.df)
    THEN << [ pais |-> op[1], tabla |-> op[2], estado |-> "ok" ] >>
    ELSE << >>

\* the run is started for both countries
Ex_Todas_Llamar ==
    /\ ex.pc = "listo"
    /\ \E impl \in {"app", "etl"}, alc \in [ Rango(PAISES) -> BOOLEAN ] :
          ex' = [ ex EXCEPT !.pc = "run", !.op = "todas", !.impl = impl,
                            !.alcanzable = alc, !.cola = Operaciones ]
    /\ UNCHANGED << varsCarga, resto, fb, ean, dis, mp >>

\* one iteration of the inner loop; entering a country, the app first
\* tests the connection until one test has succeeded, and returns if the
\* test fails
Ex_Todas_Operacion ==
    /\ ex.pc = "run" /\ ex.cola # << >>
    /\ LET op == Head(ex.cola)
           entra == op[2] = TABLAS_BASE[1]
           prueba == ex.impl = "app" /\ entra /\ ex.primera_conexion
       IN  IF prueba /\ ~ex.alcanzable[op[1]]
           THEN ex' = [ ex EXCEPT !.pc = "hecho", !.abortado = TRUE ]
           ELSE \E e \in EntornosOperacion(ex.alcanzable[op[1]]) :
                   LET r == descargar_tabla(ex.impl, op[1], op[2], e)
                   IN  ex' = [ ex EXCEPT
                          !.primera_conexion = IF prueba THEN FALSE ELSE @,
                          !.cola = Tail(@),
                          !.intentos = Append(@, op),
                          !.fallidos = IF r.none THEN @ \cup {op} ELSE @,
                          !.resumen = IF ex.impl = "app"
                                      THEN Append(@, RegistroApp(op, r))
                                      ELSE @ \o RegistrosEtl(op, r) ]
    /\ UNCHANGED << varsCarga, resto, fb, ean, dis, mp >>

\* the loops are over and the summary is shown
Ex_Todas_Fin ==
    /\ ex.pc = "run" /\ ex.cola = << >>
    /\ ex' = [ ex EXCEPT !.pc = "hecho" ]
    /\ UNCHANGED << varsCarga, resto, fb, ean, dis, mp >>

NextExtraccion ==
    \/ Ex_Detectar \/ Ex_DescargarTabla \/ Ex_EjecutarSp
    \/ Ex_Todas_Llamar \/ Ex_Todas_Operacion \/ Ex_Todas_Fin

(***************************************************************************)
(* The Pipeline Orchestrator (src/pipeline_maestro.py).                    *)
(***************************************************************************)
\* what verificar_configuracion finds at startup
ConfigPosibles == {"ok", "falta_variable", "sin_drive"}

\* verificar_configuracion: a missing .env, required variable or dependency
\* is an error; a base directory that does not exist is only a warning
verificar_configuracion_sin_errores(cfg) == TRUE
verificar_configuracion(cfg) == cfg # "falta_variable"

\* --step: 0 stands for None (both are false in `if solo_paso:`)
SoloPasoPosibles == 0..4

\* the "args" of each entry of pasos
ArgsPasoProduccion(num, dry_run) ==
    CASE num = 1 -> { }
      [] num = 2 -> {"--apply"}
      [] OTHER   -> { }
ArgsPaso(num, dry_run) ==
    CASE num = 1 -> IF dry_run THEN {"--dry-run"} ELSE { }
      [] num = 2 -> IF dry_run THEN { } ELSE {"--apply"}
      [] OTHER   -> { }

\* pasos, filtered by solo_paso
Pasos(dry_run) == [ i \in 1..3 |-> [ num |-> i, args |-> ArgsPaso(i, dry_run) ] ]
FiltrarPasos(pasos, solo_paso) ==
    IF solo_paso # 0
    THEN SelectSeq(pasos, LAMBDA paso : paso.num = solo_paso)
    ELSE pasos

\* what running a script can come to: the script file is missing, the
\* process ends with status rc; cambios: the script found something to
\* change; tablas_fallidas: some table of the load step failed to load
ResultadosScript(num) ==
    { r \in [ existe : BOOLEAN, rc : {0, 1}, cambios : BOOLEAN,
              tablas_fallidas : BOOLEAN ] :
        /\ ~r.existe => (r.rc = 1 /\ ~r.cambios /\ ~r.tablas_fallidas)
        /\ r.tablas_fallidas => (num = 3 /\ r.cambios)
        \* main of the load script: a failed table leaves the status 0; the
        \* status is 1 when the warehouse cannot be reached
        /\ (num = 3 /\ r.rc = 1) => ~r.cambios }

\* 2_normalizar_headers.py: normalizar_csv writes <stem>_normalizado.csv
\* unless --dry-run was given
normalizar_csv_escribe(args, r) == r.existe /\ r.cambios /\ "--dry-run" \notin args
\* 3_renombrar_archivos.py: renames only when --apply was given
renombrar_aplica(args, r) == r.existe /\ r.cambios /\ "--apply" \in args
\* 4_cargar_snowflake.py: replaces tables once connected
cargar_toca_almacen(args, r) == r.existe /\ r.cambios

\* ejecutar_script: True iff the script exists and ended with status 0
ejecutar_script(r) == r.existe /\ r.rc = 0

\* the answers input() can give; "EOF": no terminal, input() raises
RespuestasPosibles == {"s", "S", "n", "EOF"}
Minuscula(c) == IF c = "S" THEN "s" ELSE c

\* the condition under which the operator is asked after a failure
DebePreguntar(dry_run, fallidos, n_pasos) == ~dry_run /\ fallidos < n_pasos

MpInactivo ==
    [ pc |-> "listo", dry_run |-> FALSE, solo_paso |-> 0, cfg |-> "ok",
      pasos |-> << >>, n_pasos |-> 0, exitosos |-> 0, fallidos |-> 0,
      historia |-> << >>, escritos |-> FALSE, renombrados |-> FALSE,
      almacen |-> FALSE, tablas_fallidas |-> FALSE, salida |-> None ]

\* main: ejecutar_pipeline(dry_run, solo_paso) is called
Mp_Llamar ==
    /\ mp.pc = "listo"
    /\ \E d \in BOOLEAN, sp \in SoloPasoPosibles, c \in ConfigPosibles :
          mp' = [ mp EXCEPT !.pc = "verificar", !.dry_run = d,
                            !.solo_paso = sp, !.cfg = c ]
    /\ UNCHANGED << varsCarga, resto, fb, ean, dis, ex >>

\* step 0 and the definition of pasos
Mp_Verificar ==
    /\ mp.pc = "verificar"
    /\ LET pasos == FiltrarPasos(Pasos(mp.dry_run), mp.solo_paso)
       IN  IF ~verificar_configuracion(mp.cfg) \/ pasos = << >>
           THEN mp' = [ mp EXCEPT !.pc = "fin", !.salida = "1" ]
           ELSE mp' = [ mp EXCEPT !.pc = "bucle", !.pasos = pasos,
                                  !.n_pasos = Len(pasos) ]
    /\ UNCHANGED << varsCarga, resto, fb, ean, dis, ex >>

\* the loop's `continue` for step 3 in dry-run mode
Mp_Omitir ==
    /\ mp.pc = "bucle" /\ mp.pasos # << >>
    /\ mp.dry_run /\ Head(mp.pasos).num = 3
    /\ mp' = [ mp EXCEPT !.pasos = Tail(@) ]
    /\ UNCHANGED << varsCarga, resto, fb, ean, dis, ex >>

\* one iteration of the loop that runs a script
Mp_EjecutarScript ==
    /\ mp.pc = "bucle" /\ mp.pasos # << >>
    /\ ~(mp.dry_run /\ Head(mp.pasos).num = 3)
    /\ LET paso == Head(mp.pasos)
       IN  \E r \in ResultadosScript(paso.num) :
              LET exito == ejecutar_script(r)
                  fallidos == IF exito THEN mp.fallidos ELSE mp.fallidos + 1
              IN  mp' = [ mp EXCEPT
                     !.pasos = Tail(@),
                     !.exitosos = IF exito THEN @ + 1 ELSE @,
                     !.fallidos = fallidos,
                     !.historia = Append(@, [ tipo |-> "paso", num |-> paso.num,
                                              exito |-> exito, respuesta |-> "" ]),
                     !.escritos = @ \/ (paso.num = 1 /\ normalizar_csv_escribe(paso.args, r)),
                     !.renombrados = @ \/ (paso.num = 2 /\ renombrar_aplica(paso.args, r)),
                     !.almacen = @ \/ (paso.num = 3 /\ cargar_toca_almacen(paso.args, r)),
                     !.tablas_fallidas = @ \/ r.tablas_fallidas,
                     !.pc = IF ~exito /\ DebePreguntar(mp.dry_run, fallidos, mp.n_pasos)
                            THEN "preguntar" ELSE "bucle" ]
    /\ UNCHANGED << varsCarga, resto, fb, ean, dis, ex >>

\* input("¿Continuar con siguiente paso? (s/n): ")
Mp_Preguntar ==
    /\ mp.pc = "preguntar"
    /\ \E respuesta \in RespuestasPosibles :
          mp' = [ mp EXCEPT
                    !.historia = Append(@, [ tipo |-> "pregunta", num |-> 0,
                                             exito |-> FALSE,
                                             respuesta |-> respuesta ]),
                    !.pc = IF respuesta = "EOF" THEN "fin"
                           ELSE IF Minuscula(respuesta) # "s" THEN "resumen"
                           ELSE "bucle",
                    !.salida = IF respuesta = "EOF" THEN "1" ELSE @ ]
    /\ UNCHANGED << varsCarga, resto, fb, ean, dis, ex >>

\* the final summary; ejecutar_pipeline returns and the process ends
Mp_Resumen ==
    /\ \/ mp.pc = "bucle" /\ mp.pasos = << >>
       \/ mp.pc = "resumen"
    /\ mp' = [ mp EXCEPT !.pc = "fin", !.salida = "0" ]
    /\ UNCHANGED << varsCarga, resto, fb, ean, dis, ex >>

NextPipeline ==
    \/ Mp_Llamar \/ Mp_Verificar \/ Mp_Omitir
    \/ Mp_EjecutarScript \/ Mp_Preguntar \/ Mp_Resumen

(***************************************************************************)
(* The Header Normalizer (etl/2_normalizar_headers.py: normalizar_header)  *)
(* and the Table-Name Resolver (etl/4_cargar_snowflake.py:                 *)
(* normalizar_nombre_tabla) as calls on labels and file names.             *)
(***************************************************************************)
Texto(S, n) == UNION { [1..k -> S] : k \in 0..n }

\* MAPEO_HEADERS, the entries whose keys can be written with CarEtiqueta:
\* "TC": "TIPO_CAMBIO"
MAPEO_HEADERS ==
    [ k \in { << "T", "C" >> } |->
        << "T", "I", "P", "O", "_", "C", "A", "M", "B", "I", "O" >> ]

\* characters of the column labels
CarEtiqueta == { "T", "C", "t", "c", "a'", " ", "_", "." }

\* .replace(" ", "_").replace(".", "_").replace("-", "_")
ReemplazarSeparador(c) == IF c \in {" ", ".", "-"} THEN "_" ELSE c

\* if header in MAPEO_HEADERS
EnMapeo(header) == header \in DOMAIN MAPEO_HEADERS

normalizar_header(header) ==
    IF EnMapeo(header) THEN MAPEO_HEADERS[header]
    ELSE LET sinBlancos == Strip(header, " ")
             sinAc  == MapSeq(sinBlancos, SinAcento)
             reempl == MapSeq(sinAc, ReemplazarSeparador)
             mayus  == MapSeq(reempl, Mayuscula)
         IN  Strip(ColapsarGuiones(mayus), "_")

\* the other case of a letter (str.swapcase on one character)
OtraCaja(c) ==
    CASE c = "T" -> "t" [] c = "t" -> "T" [] c = "C" -> "c" [] c = "c" -> "C"
      [] OTHER -> c

\* the labels that differ from header only in the case of their letters
VariantesDeCaja(header) ==
    { h \in [1..Len(header) -> CarEtiqueta] :
        \A i \in 1..Len(header) : h[i] \in { header[i], OtraCaja(header[i]) } }

\* characters of the staged file names (before the _normalizado.csv suffix)
CarNombre == { "A", "a", "b", "a'", "-", "_" }

HnInactivo ==
    [ pc |-> "listo", op |-> "", h |-> << >>, h2 |-> << >>,
      out |-> << >>, out2 |-> << >>, pais |-> "" ]

\* normalizar_header on a label and on a label that differs from it in case
Hn_Header ==
    /\ hn.pc = "listo"
    /\ \E h \in Texto(CarEtiqueta, MaxEtiqueta) :
       \E h2 \in VariantesDeCaja(h) :
          hn' = [ pc |-> "hecho", op |-> "header", h |-> h, h2 |-> h2,
                  out |-> normalizar_header(h), out2 |-> normalizar_header(h2),
                  pais |-> "" ]
    /\ UNCHANGED << varsCarga, fb, ean, dis, mp, ex, fs, cn >>

\* normalizar_nombre_tabla on the name of a *_normalizado.csv file
Hn_Tabla ==
    /\ hn.pc = "listo"
    /\ \E base \in Texto(CarNombre, MaxEtiqueta), pais \in Rango(PAISES) :
          hn' = [ pc |-> "hecho", op |-> "tabla", h |-> Append(base, SUF),
                  h2 |-> << >>,
                  out |-> normalizar_nombre_tabla(Append(base, SUF)),
                  out2 |-> << >>, pais |-> pais ]
    /\ UNCHANGED << varsCarga, fb, ean, dis, mp, ex, fs, cn >>

NextNormalizar == Hn_Header \/ Hn_Tabla

(***************************************************************************)
(* The staged files of one country folder through a full pipeline run:     *)
(* 2_normalizar_headers.py, 3_renombrar_archivos.py --apply and            *)
(* 4_cargar_snowflake.py, every step succeeding.  A file is                *)
(* [nombre, sufijo, headers, filas, origen]: nombre is [base, ts, pais]    *)
(* (base name, a _YYYYMMDD_HHMMSS timestamp in it, _<COUNTRY> in it),      *)
(* sufijo says the name ends in _normalizado.csv, origen is the raw file   *)
(* it was written from (ghost).                                            *)
(***************************************************************************)
\* column labels a raw file may carry
EtiquetasCrudas ==
    { << "T" >>, << "t" >>, << "T", "C" >>, << "t", "c" >>,
      << "t", " ", "c" >>, << "t", "_", "c" >>, << "T", "_", "C" >> }

\* header lines of two pairwise distinct labels
HeadersCrudos ==
    { << a, b >> : a, b \in EtiquetasCrudas } \ { << a, a >> : a \in EtiquetasCrudas }

FilasCrudas == { << >>, << << "1", "2" >> >> }

NombresCrudos == [ base : {"v"}, ts : BOOLEAN, pais : BOOLEAN ]

CrudosPosibles ==
    { [ nombre |-> n, sufijo |-> FALSE, headers |-> h, filas |-> f, origen |-> n ] :
        n \in NombresCrudos, h \in HeadersCrudos, f \in FilasCrudas }

\* a second raw file of the folder
Vecinos ==
    { [ nombre |-> [base |-> "w", ts |-> FALSE, pais |-> FALSE], sufijo |-> FALSE,
        headers |-> h, filas |-> << << "3", "4" >> >>,
        origen |-> [base |-> "w", ts |-> FALSE, pais |-> FALSE] ] :
        h \in { << << "T" >>, << "T", "_", "C" >> >>, << << "t" >>, << "T" >> >> } }

\* headers_normalizados = [normalizar_header(h) for h in headers_originales]
NormalizarHeaders(headers) ==
    [ i \in 1..Len(headers) |-> normalizar_header(headers[i]) ]

\* normalizar_csv: the files it leaves in the folder for one raw file
normalizar_csv(f) ==
    LET headers_normalizados == NormalizarHeaders(f.headers)
        cambios == { i \in 1..Len(f.headers) : f.headers[i] # headers_normalizados[i] }
    IN  IF cambios = {} THEN { f }
        ELSE { f, [ f EXCEPT !.sufijo = TRUE, !.headers = headers_normalizados ] }

\* procesar_pais of 2_normalizar_headers.py: glob("*.csv") without the
\* names that end in _normalizado.csv
procesar_pais(carpeta) ==
    { f \in carpeta : f.sufijo }
      \cup UNION { normalizar_csv(f) : f \in { g \in carpeta : ~g.sufijo } }

\* renombrar_archivos_pais: timestamp removed, _<COUNTRY> once at the end
nombre_nuevo(nombre) == [ nombre EXCEPT !.ts = FALSE, !.pais = TRUE ]

renombrar_archivos_pais(carpeta) ==
    { IF f.sufijo THEN [ f EXCEPT !.nombre = nombre_nuevo(f.nombre) ] ELSE f :
        f \in carpeta }

\* procesar_carpeta_pais of 4_cargar_snowflake.py: glob("*_normalizado.csv");
\* an empty file is not loaded
ArchivosCargados(carpeta) == { f \in carpeta : f.sufijo /\ f.filas # << >> }

FsInactivo ==
    [ pc |-> "listo", crudos |-> {}, carpeta |-> {}, escritos |-> {},
      renombrados |-> {}, cargados |-> {}, orden |-> << >> ]

\* the run starts with the raw files of the folder
Fs_Llamar ==
    /\ fs.pc = "listo"
    /\ \E f \in CrudosPosibles, V \in { {} } \cup { {v} : v \in Vecinos } :
          fs' = [ FsInactivo EXCEPT !.pc = "paso1", !.crudos = {f} \cup V,
                                    !.carpeta = {f} \cup V ]
    /\ UNCHANGED << varsCarga, fb, ean, dis, mp, ex, hn, cn >>

\* step 1: 2_normalizar_headers.py
Fs_Normalizar ==
    /\ fs.pc = "paso1"
    /\ LET c == procesar_pais(fs.carpeta)
       IN  fs' = [ fs EXCEPT !.pc = "paso2", !.carpeta = c,
                             !.escritos = c \ fs.carpeta,
                             !.orden = Append(@, "normalizar") ]
    /\ UNCHANGED << varsCarga, fb, ean, dis, mp, ex, hn, cn >>

\* step 2: 3_renombrar_archivos.py --apply
Fs_Renombrar ==
    /\ fs.pc = "paso2"
    /\ LET c == renombrar_archivos_pais(fs.carpeta)
       IN  fs' = [ fs EXCEPT !.pc = "paso3", !.carpeta = c,
                             !.renombrados = { f \in c : f.sufijo },
                             !.orden = Append(@, "renombrar") ]
    /\ UNCHANGED << varsCarga, fb, ean, dis, mp, ex, hn, cn >>

\* step 3: 4_cargar_snowflake.py
Fs_Cargar ==
    /\ fs.pc = "paso3"
    /\ fs' = [ fs EXCEPT !.pc = "hecho",
                         !.cargados = ArchivosCargados(fs.carpeta),
                         !.orden = Append(@, "cargar") ]
    /\ UNCHANGED << varsCarga, fb, ean, dis, mp, ex, hn, cn >>

NextArchivos == Fs_Llamar \/ Fs_Normalizar \/ Fs_Renombrar \/ Fs_Cargar

(***************************************************************************)
(* The two ways to the EAN column, on the same detail rows and the same    *)
(* contents of dbo.maeGC_ProductoEquiv: the query of descargar_tabla with  *)
(* the EAN_LOOKUP expression, and agregar_columna_ean on the plain rows.   *)
(***************************************************************************)
\* product codes of the detail rows: plain, padded on the right, with a
\* blank in front, and one that has no equivalence
CodigosDetalle == { << "1" >>, << "1", " " >>, << " ", "1" >>, << "9" >> }

\* FROM dbo.maeGC_ProductoEquiv WHERE cEquivalencia = 'EAN12' AND cPais = ..
FilasEquiv(tabla_equiv, pais) ==
    { x \in tabla_equiv :
        x.cEquivalencia = "EAN12" /\ x.cPais = codigo_pais(pais) }

\* WITH EAN_LOOKUP AS (SELECT RTRIM(cProducto), RTRIM(cProductoEquiv) ...):
\* one row per row of the table, in the order the server reads them
EAN_LOOKUP(orden) ==
    [ i \in 1..Len(orden) |->
        << RTrim(orden[i].cProducto), RTrim(orden[i].cProductoEquiv) >> ]

\* SELECT d.*, COALESCE(e.EAN, '') AS EAN FROM {tabla} d
\* LEFT JOIN EAN_LOOKUP e ON RTRIM(d.cProductoVta) = e.cProducto
ConsultaFusionada(df, lookup) ==
    [ columns |-> Append(df.columns, "EAN"),
      rows |-> UnirPor(df.rows, IndiceDe(df.columns, "cProductoVta"), lookup) ]

\* both ways applied to the same inputs; every connection and query succeeds
Ean_Fusion ==
    /\ ean.pc = "listo"
    /\ \E cods \in SeqsHasta(CodigosDetalle, MaxFilasEan),
          pais \in Rango(PAISES), te \in SUBSET Equivalencias,
          impl \in {"app", "etl"} :
       \E o1 \in Ordenes(QueryEan(te, pais)),
          o2 \in Ordenes(FilasEquiv(te, pais)) :
          LET df == Armar([cols |-> << "Fecha", "cProductoVta" >>, var |-> 2,
                           otro |-> << >>], cods)
          IN  ean' = [ pc |-> "fusionado", impl |-> impl, pais |-> pais,
                       df |-> df, tabla_equiv |-> te, conexion |-> "ok",
                       rows_ean |-> o1,
                       out |-> agregar_columna_ean(df, impl, "ok", o1),
                       conexion2 |-> "ok",
                       out2 |-> [columns |-> << >>, rows |-> << >>],
                       fusion |-> ConsultaFusionada(df, EAN_LOOKUP(o2)) ]
    /\ UNCHANGED << varsCarga, resto, fb, dis, mp, ex >>

NextFusion == Ean_Fusion

(***************************************************************************)
(* The connections to the source.  get_connection opens a new connection   *)
(* on every call (no cache, no pool).  For one call of an operation, `uso` *)
(* counts the connections it opened (abre) and the ones its code closed    *)
(* with conn.close() before returning (cierra), nested calls included.     *)
(* A connection the code does not close stays open until the runtime       *)
(* reclaims the object, which may or may not have happened when the        *)
(* operation returns.                                                      *)
(***************************************************************************)
\* what the surroundings answer during one operation
EntornosConexion ==
    [ conecta : BOOLEAN,     \* get_connection returns a connection
      cursor : BOOLEAN,      \* conn.cursor() succeeds
      consulta : BOOLEAN,    \* the statements run without an exception
      filas : BOOLEAN,       \* the result has rows
      declarada : BOOLEAN,   \* the static metadata names a date column
      conecta2 : BOOLEAN,    \* the nested get_connection returns a connection
      enriquece : BOOLEAN ]  \* the caller's condition for the EAN column holds

Uso(a, c) == [ abre |-> a, cierra |-> c ]
SinUso == Uso(0, 0)
Mas(u, v) == Uso(u.abre + v.abre, u.cierra + v.cierra)

\* app: conn.cursor() and the queries are inside the try, and the finally
\* clause closes conn whenever it is not None
UsoConFinally(e) == IF e.conecta THEN Uso(1, 1) ELSE SinUso

\* etl: conn.cursor() comes before the try; the finally clause with
\* conn.close() is reached only through the try
UsoCursorFuera(e) ==
    IF ~e.conecta THEN SinUso
    ELSE IF ~e.cursor THEN Uso(1, 0) ELSE Uso(1, 1)

\* agregar_columna_ean as a nested call; it connects on its own
UsoEan(impl, e) ==
    IF ~e.conecta2 THEN SinUso
    ELSE IF impl = "app" THEN Uso(1, 1)
    ELSE IF ~e.cursor THEN Uso(1, 0) ELSE Uso(1, 1)

\* detectar_columna_fecha as a nested call; the application answers from
\* the static metadata without connecting, and its finally clause closes
\* the cursor only
UsoDetectar(impl, e) ==
    IF impl = "app"
    THEN IF e.declarada \/ ~e.conecta2 THEN SinUso ELSE Uso(1, 0)
    ELSE IF ~e.conecta2 THEN SinUso
         ELSE IF ~e.cursor THEN Uso(1, 0) ELSE Uso(1, 1)

uso_ejecutar_sp(impl, e) ==
    Mas(IF impl = "app" THEN UsoConFinally(e) ELSE UsoCursorFuera(e),
        IF e.conecta /\ e.cursor /\ e.consulta /\ e.filas /\ e.enriquece
        THEN UsoEan(impl, e) ELSE SinUso)

uso_agregar_columna_ean(impl, e) ==
    IF ~e.filas \/ ~e.enriquece THEN SinUso
    ELSE UsoEan(impl, [ e EXCEPT !.conecta2 = e.conecta ])

uso_detectar_columna_fecha(impl, e) ==
    UsoDetectar(impl, [ e EXCEPT !.conecta2 = e.conecta ])

uso_descargar_tabla(impl, e) ==
    IF impl = "app"
    THEN Mas(UsoConFinally(e), IF e.conecta THEN UsoDetectar(impl, e) ELSE SinUso)
    ELSE Mas(UsoCursorFuera(e),
             IF e.conecta /\ e.cursor THEN UsoDetectar(impl, e) ELSE SinUso)

\* cursor.close() and nothing else
uso_verificar_sp_existe(e) == IF e.conecta THEN Uso(1, 0) ELSE SinUso

uso_ejecutar_query_alternativa(e) == UsoConFinally(e)

\* listar_clientes_alternativo, listar_productos_alternativo: the base
\* query through ejecutar_query_alternativa, then a connection of their
\* own for the extra columns, whose finally clause closes the cursor only
uso_listar_alternativo(e) ==
    Mas(UsoConFinally(e),
        IF e.conecta /\ e.cursor /\ e.consulta /\ e.filas /\ e.conecta2
        THEN Uso(1, 0) ELSE SinUso)

\* the other *_alternativo helpers return ejecutar_query_alternativa(..)
uso_reporte_alternativo(e) == UsoConFinally(e)

CnInactivo ==
    [ llamadas |-> 0, abiertas |-> 0, op |-> "", impl |-> "",
      e |-> [ conecta |-> FALSE, cursor |-> FALSE, consulta |-> FALSE,
              filas |-> FALSE, declarada |-> FALSE, conecta2 |-> FALSE,
              enriquece |-> FALSE ],
      uso |-> SinUso ]

\* one call of an operation under the surroundings e
Cn_Llamar(op, impl, e, uso) ==
    /\ cn.llamadas < MaxLlamadas
    /\ \E reclamadas \in 0..(uso.abre - uso.cierra) :
          cn' = [ llamadas |-> cn.llamadas + 1,
                  abiertas |-> cn.abiertas + uso.abre - uso.cierra - reclamadas,
                  op |-> op, impl |-> impl, e |-> e, uso |-> uso ]

Cn_EjecutarSp ==
    /\ \E impl \in {"app", "etl"}, e \in EntornosConexion :
           Cn_Llamar("ejecutar_sp", impl, e, uso_ejecutar_sp(impl, e))
    /\ UNCHANGED << varsCarga, fb, ean, dis, mp, ex, hn, fs >>

Cn_AgregarColumnaEan ==
    /\ \E impl \in {"app", "etl"}, e \in EntornosConexion :
           Cn_Llamar("agregar_columna_ean", impl, e, uso_agregar_columna_ean(impl, e))
    /\ UNCHANGED << varsCarga, fb, ean, dis, mp, ex, hn, fs >>

Cn_DetectarColumnaFecha ==
    /\ \E impl \in {"app", "etl"}, e \in EntornosConexion :
           Cn_Llamar("detectar_columna_fecha", impl, e,
                     uso_detectar_columna_fecha(impl, e))
    /\ UNCHANGED << varsCarga, fb, ean, dis, mp, ex, hn, fs >>

Cn_DescargarTabla ==
    /\ \E impl \in {"app", "etl"}, e \in EntornosConexion :
           Cn_Llamar("descargar_tabla", impl, e, uso_descargar_tabla(impl, e))
    /\ UNCHANGED << varsCarga, fb, ean, dis, mp, ex, hn, fs >>

Cn_VerificarSpExiste ==
    /\ \E e \in EntornosConexion :
           Cn_Llamar("verificar_sp_existe", "app", e, uso_verificar_sp_existe(e))
    /\ UNCHANGED << varsCarga, fb, ean, dis, mp, ex, hn, fs >>

Cn_QueryAlternativa ==
    /\ \E e \in EntornosConexion :
           Cn_Llamar("ejecutar_query_alternativa", "app", e,
                     uso_ejecutar_query_alternativa(e))
    /\ UNCHANGED << varsCarga, fb, ean, dis, mp, ex, hn, fs >>

Cn_ListarAlternativo ==
    /\ \E op \in {"listar_clientes_alternativo", "listar_productos_alternativo"},
          e \in EntornosConexion :
           Cn_Llamar(op, "app", e, uso_listar_alternativo(e))
    /\ UNCHANGED << varsCarga, fb, ean, dis, mp, ex, hn, fs >>

Cn_ReporteAlternativo ==
    /\ \E e \in EntornosConexion :
           Cn_Llamar("reporte_cartera_alternativo", "app", e,
                     uso_reporte_alternativo(e))
    /\ UNCHANGED << varsCarga, fb, ean, dis, mp, ex, hn, fs >>

NextConexiones ==
    \/ Cn_EjecutarSp \/ Cn_AgregarColumnaEan \/ Cn_DetectarColumnaFecha
    \/ Cn_DescargarTabla \/ Cn_VerificarSpExiste \/ Cn_QueryAlternativa
    \/ Cn_ListarAlternativo \/ Cn_ReporteAlternativo

(***************************************************************************)
(* Specifications: one per component; the others stand still.              *)
(***************************************************************************)
Init ==
    /\ InitCarga /\ fb = FbInactivo /\ ean = EanInactivo /\ dis = DisInactivo
    /\ mp = MpInactivo /\ ex = ExInactivo
    /\ hn = HnInactivo /\ fs = FsInactivo /\ cn = CnInactivo

\* the loader, one run at a time
Spec == Init /\ [][NextCarga]_vars

SpecFallback == Init /\ [][NextFallback]_vars

SpecEan == Init /\ [][NextEan]_vars

SpecDesambiguar == Init /\ [][NextDesambiguar]_vars

SpecPipeline == Init /\ [][NextPipeline]_vars

SpecExtraccion == Init /\ [][NextExtraccion]_vars

\* the loader run by two processes at once
SpecConcurrente == Init /\ [][NextConcurrente]_vars

SpecArchivos == Init /\ [][NextArchivos]_vars

SpecNormalizar == Init /\ [][NextNormalizar]_vars

SpecFusion == Init /\ [][NextFusion]_vars

SpecConexiones == Init /\ [][NextConexiones]_vars

(***************************************************************************)
(* Properties of the Backup-and-Replace Loader (specification Spec).       *)
(***************************************************************************)
Vivas(t) == { x \in wh : x.nombre = t }
Olds(t) == { x \in wh : x.nombre = tabla_old(t) }

\* no load of the sequential loader is between its first and last statement
EnReposo == pc[1] \in {"inactivo", "bucle", "fin"}

TablaCon(nombre, carga) ==
    [ nombre |-> nombre, datos |-> {carga.ver}, filas |-> carga.filas ]

C2_RenameFallidoEsFallo ==
    \A p \in Secuencial :
       (pc[p] = "retorno" /\ cur[p].existia /\ cur[p].rename_fallo) =>
          /\ ~cur[p].stats.exito
          /\ cur[p].stats.error # None
          /\ cur[p].stats.filas_cargadas = 0
          /\ cur[p].previa # {}
          /\ cur[p].previa \subseteq wh

\* a load returns after the rename of an existing, loaded table failed
C2_Testigo ==
    /\ pc[1] = "retorno" /\ cur[1].existia /\ cur[1].rename_fallo
    /\ \E x \in cur[1].previa : x.filas > 0

\* what C3 says of a finished run
C3_AlFinal ==
    \A p \in Secuencial :
       (pc[p] = "fin" /\ codigo_salida[p] = 0) =>
          LET est == todas_estadisticas[p]
          IN  /\ Len(est) = Len(plan[p])
              /\ \A i \in 1..Len(est) :
                    /\ est[i].archivo = plan[p][i].nombre
                    /\ est[i].pais = plan[p][i].pais
                    /\ ~est[i].exito =>
                          /\ est[i].filas_cargadas = 0
                          /\ est[i].error # None \/ est[i].filas_leidas = 0
                    /\ (est[i].exito /\ \A j \in (i + 1)..Len(est) :
                                            est[j].tabla # est[i].tabla) =>
                          /\ racha[est[i].tabla] # << >>
                          /\ Vivas(est[i].tabla) =
                               { [ nombre |-> est[i].tabla,
                                   datos |-> { racha[est[i].tabla]
                                                 [Len(racha[est[i].tabla])].ver },
                                   filas |-> est[i].filas_cargadas ] }

\* within a run the summary only grows, by one record at its end
C3_SoloAnexa ==
    \A p \in Secuencial :
       pc[p] \notin {"inactivo", "fin"} =>
          /\ Len(todas_estadisticas'[p]) \in
                { Len(todas_estadisticas[p]), Len(todas_estadisticas[p]) + 1 }
          /\ SubSeq(todas_estadisticas'[p], 1, Len(todas_estadisticas[p]))
                = todas_estadisticas[p]

C4_AlternativaUnaVez ==
    (fb.pc = "hecho" /\ fb.remoto = "no_existe" /\ fb.func # "None") =>
       /\ fb.llamadas = << << fb.pais >> \o fb.params.vals >>
       /\ fb.func = "devuelve_df" =>
             fb.df = [ tipo |-> "alt", args |-> << fb.pais >> \o fb.params.vals ]
       /\ fb.func \in {"devuelve_None", "lanza"} => fb.df = DfNone

\* an absent procedure called with two parameters was answered by the fallback
C4_Testigo ==
    /\ fb.pc = "hecho" /\ fb.remoto = "no_existe"
    /\ fb.func = "devuelve_df" /\ Len(fb.params.vals) = 2
    /\ fb.df.tipo = "alt"

\* C5: when the remote call fails with any error other than "procedure not
\* found" (no connection, another programming or execution error), the
\* fallback is never invoked and the outcome is the failure.
C5_OtroErrorSinAlternativa ==
    (fb.pc = "hecho"
       /\ fb.remoto \in {"sin_conexion", "error_programacion", "error_otro"}) =>
       /\ fb.llamadas = << >>
       /\ fb.df = DfNone

(***************************************************************************)
(* Properties of the EAN Enrichment Join (specification SpecEan).          *)
(***************************************************************************)
\* the call enriched an extract that has rows, as every caller's does
EanHecho == ean.pc = "hecho" /\ ~Empty(ean.df)

\* C6: for every extract and every content of the lookup table (also one
\* holding several EAN12 codes for one product code) the enrichment returns
\* exactly as many rows as the extract has.
C6_MismasFilas == EanHecho => Len(ean.out.rows) = Len(ean.df.rows)

\* the EAN12 codes the lookup table holds for a product code in the
\* country of the extract, both sides trimmed
CodigosEan(codigo) ==
    { RTrim(e.cProductoEquiv) :
        e \in { x \in ean.tabla_equiv :
                  /\ x.cEquivalencia = "EAN12"
                  /\ x.cPais = (IF ean.pais = "CHILE" THEN "CL" ELSE "PE")
                  /\ StrStrip(x.cProducto) = StrStrip(codigo) } }

\* C7: after the enrichment every row has a non-null EAN value; when the
\* lookup was read, it is an equivalence code the lookup holds for the
\* row's product code (compared trimmed, same country, kind EAN12), and
\* the empty string when the lookup holds none.
C7_EanCorrecto ==
    EanHecho =>
       /\ "EAN" \in Rango(ean.out.columns)
       /\ \A i \in 1..Len(ean.out.rows) :
             LET fila == ean.out.rows[i]
                 valor == fila[IndiceDe(ean.out.columns, "EAN")]
                 col == ColProducto(ean.df, ean.impl)
             IN  /\ valor # NaN
                 /\ col = "" => valor = << >>
                 /\ (col # "" /\ ean.conexion = "ok") =>
                       LET m == CodigosEan(fila[IndiceDe(ean.df.columns, col)])
                       IN  IF m = {} THEN valor = << >> ELSE valor \in m

\* the scenario of the specification: a padded code that matches and a code
\* that does not
C7_Testigo ==
    /\ EanHecho /\ ean.conexion = "ok" /\ Len(ean.out.rows) = 2
    /\ ean.df.columns = << "Fecha", "cProductoVta" >>
    /\ ean.out.rows[1][2] = << "1", " " >> /\ ean.out.rows[1][3] = << "E1" >>
    /\ ean.out.rows[2][2] = << "9" >> /\ ean.out.rows[2][3] = << >>

\* C8: the enrichment changes nothing but adding the EAN column: whatever
\* alias the product-code column carries, the output's labels are the
\* input's labels in order followed by EAN, no temporary join key is left,
\* and (row for row) the cells of the other columns are unchanged.
C8_SoloAgregaEan ==
    EanHecho =>
       /\ ean.out.columns = Append(ean.df.columns, "EAN")
       /\ Rango(ean.out.columns) \cap {"_codigo_limpio", "cProducto_x", "cProducto_y"} = {}
       /\ Len(ean.out.rows) = Len(ean.df.rows) =>
             \A i \in 1..Len(ean.df.rows) :
                SubSeq(ean.out.rows[i], 1, Len(ean.df.columns)) = ean.df.rows[i]

(***************************************************************************)
(* Properties of the Column Disambiguator (specification SpecDesambiguar). *)
(***************************************************************************)
\* the call relabelled an extract that has rows, as every caller's does
DisHecho == dis.pc = "hecho" /\ dis.df.rows # << >>

\* C9: for every list of labels, also one in which a label already ends in
\* a numeric suffix X_k, no two labels of the result are equal.
C9_SinRepetidos ==
    DisHecho =>
       \A i, j \in 1..Len(dis.out.columns) :
          i # j => dis.out.columns[i] # dis.out.columns[j]

\* how often the label at position i occurs before i
Previas(cols, i) == Cardinality({ j \in 1..(i - 1) : cols[j] = cols[i] })

\* C10: the result has the length of the input; position i holds the input
\* label when it is the first occurrence and label_k when it is the k-th
\* repeat, counted left to right; an input without duplicates is returned
\* as it is; the rows are not changed.
C10_SufijoPorRepeticion ==
    DisHecho =>
       /\ Len(dis.out.columns) = Len(dis.df.columns)
       /\ \A i \in 1..Len(dis.df.columns) :
             dis.out.columns[i] =
                IF Previas(dis.df.columns, i) = 0 THEN dis.df.columns[i]
                ELSE dis.df.columns[i] \o "_" \o ToString(Previas(dis.df.columns, i))
       /\ dis.out.rows = dis.df.rows

(***************************************************************************)
(* Properties of the Pipeline Orchestrator (specification SpecPipeline).   *)
(***************************************************************************)
\* the steps of the run's history, and its failed ones
PasosCorridos == { i \in 1..Len(mp.historia) : mp.historia[i].tipo = "paso" }
PasosFallidos == { i \in PasosCorridos : ~mp.historia[i].exito }

\* C11: the pipeline process ends with a non-zero exit status whenever at
\* least one step failed (a load step in which some table failed to load
\* included), and with status zero only when every executed step succeeded.
C11_SalidaDistingueFallos ==
    mp.pc = "fin" =>
       /\ (PasosFallidos # {} \/ mp.tablas_fallidas) => mp.salida # "0"
       /\ mp.salida = "0" => (PasosFallidos = {} /\ ~mp.tablas_fallidas)

\* C12: when a step fails, in dry-run mode no further step is run, and in
\* interactive mode a further step is run only after the operator has been
\* asked and has answered yes.
C12_TrasFalloDetieneOPregunta ==
    \A i \in PasosFallidos :
       (\E j \in PasosCorridos : j > i) =>
          /\ ~mp.dry_run
          /\ mp.historia[i + 1].tipo = "pregunta"
          /\ Minuscula(mp.historia[i + 1].respuesta) = "s"

\* C13: in dry-run mode the load step is never run and nothing persistent
\* changes: no _normalizado file is written, no staged file is renamed, no
\* warehouse table is created, renamed or dropped.
C13_DryRunNoCambiaNada ==
    mp.dry_run =>
       /\ \A i \in PasosCorridos : mp.historia[i].num # 3
       /\ ~mp.escritos /\ ~mp.renombrados /\ ~mp.almacen

\* a full dry run has finished after the normalizer and the renamer ran
C13_Testigo ==
    /\ mp.pc = "fin" /\ mp.dry_run /\ mp.solo_paso = 0
    /\ Len(mp.historia) = 2
    /\ \A i \in 1..2 : mp.historia[i].tipo = "paso" /\ mp.historia[i].exito

\* C14 as stated: if a required configuration variable is missing or the
\* base staging directory is unreachable, the pipeline aborts at startup
\* with a failure status and no normalize, rename or load step is started.
C14_ConfigMalaAborta ==
    mp.cfg # "ok" =>
       /\ PasosCorridos = {}
       /\ mp.pc = "fin" => mp.salida = "1"

\* C14 amended: if a required configuration variable is missing, the
\* pipeline aborts at startup with status 1 and no step is ever started; an
\* unreachable base directory alone does not abort it: verification passes
\* and the loop over the steps is entered.
C14_VariableFaltanteAborta ==
    /\ mp.cfg = "falta_variable" =>
          /\ PasosCorridos = {}
          /\ mp.pc \in {"listo", "verificar", "fin"}
          /\ mp.pc = "fin" => mp.salida = "1"
    /\ (mp.cfg = "sin_drive" /\ mp.pc = "fin" /\ mp.solo_paso \in 0..3) =>
          (mp.salida = "0" \/ PasosFallidos # {})

\* a run with a missing variable has ended
C14_Testigo == mp.cfg = "falta_variable" /\ mp.pc = "fin" /\ mp.solo_paso = 0

(***************************************************************************)
(* Properties of the Extraction Engine (specification SpecExtraccion).     *)
(***************************************************************************)
\* C15: in a multi-country extraction run a connectivity failure for one
\* country or table does not keep the operations of the other countries
\* and tables from being attempted, and the failed (country, table) item
\* is recorded in the run summary as failed.
C15_FalloNoDetieneHermanos ==
    (ex.op = "todas" /\ ex.pc = "hecho") =>
       /\ ex.intentos = Operaciones
       /\ \A op \in ex.fallidos :
             \E i \in 1..Len(ex.resumen) :
                /\ ex.resumen[i].pais = op[1] /\ ex.resumen[i].tabla = op[2]
                /\ ex.resumen[i].estado = "error"

\* C16: an extraction returns an empty zero-row extract, never None,
\* whenever the query runs successfully and yields no rows, and returns
\* None exactly when connecting or executing fails.
C16_VacioNoEsNone ==
    /\ (ex.pc = "hecho" /\ ex.op = "sp") =>
          /\ (ex.x.conecta /\ ex.x.existe /\ ex.x.ejecucion = "ok"
                /\ ex.x.filas = 0) => ex.sp.df = DfVacio
          /\ ex.sp.df = DfNone <=>
                (~ex.x.conecta \/ ~ex.x.existe \/ ex.x.ejecucion # "ok")
    /\ (ex.pc = "hecho" /\ ex.op = "tabla") =>
          /\ ex.out.none <=> (~ex.e.conecta \/ ex.e.ejecucion # "ok")
          /\ (ex.e.conecta /\ ex.e.ejecucion = "ok" /\ ex.e.filas = <<>>) =>
                (~ex.out.none /\ ex.out.df.rows = <<>>)

\* the first column of temporal type in declaration order, None if none
PrimeraColumnaTemporal(esquema) ==
    LET T == { i \in 1..Len(esquema) :
                 esquema[i].tipo \in {"date", "datetime", "datetime2", "smalldatetime"} }
    IN  IF T = {} THEN None
        ELSE esquema[CHOOSE i \in T : \A j \in T : i <= j].nombre

\* C17: detectar_columna_fecha returns the static lookup's column when one
\* is declared, without opening a connection; otherwise the first temporal
\* column the schema catalogue reports; and none when the table has no
\* temporal column or the connection or the schema query fails.
C17_DetectorDeFecha ==
    (ex.pc = "hecho" /\ ex.op = "detectar") =>
       IF ex.e.meta.declarada # None
       THEN ex.det.col = ex.e.meta.declarada /\ ex.det.conexiones = 0
       ELSE IF ex.e.conecta_det /\ ex.e.catalogo
       THEN ex.det.col = PrimeraColumnaTemporal(ex.e.esquema)
       ELSE ex.det.col = None

\* the ids of the rows of a table or extract
Ids(filas) == { filas[i][1] : i \in 1..Len(filas) }

\* C18: descargar_tabla issues a query bounded below by the date literal
\* now - 1080 days if and only if the detector returned a column; with no
\* column the query is unbounded and the extract holds every row of the
\* table.
C18_VentanaDe1080Dias ==
    (ex.pc = "hecho" /\ ex.op = "tabla" /\ ex.e.conecta) =>
       LET q == ex.out.query
           pos == IndiceDe(ColumnasFuente, q.filtro.col)
           dentro == { f \in Rango(ex.e.filas) :
                         /\ ~f[pos].nulo
                         /\ f[pos].dia >= ex.e.ahora.dia - 1080 }
       IN  /\ q.filtro.col # None <=> ex.out.det.col # None
           /\ q.filtro.col # None =>
                 /\ q.filtro.col = ex.out.det.col
                 /\ q.filtro.desde =
                       [ nulo |-> FALSE, dia |-> ex.e.ahora.dia - 1080, hora |-> 0 ]
                 /\ ~ex.out.none =>
                       Ids(ex.out.df.rows) = { f[1] : f \in dentro }
           /\ (q.filtro.col = None /\ ~ex.out.none) =>
                 /\ Ids(ex.out.df.rows) = Ids(ex.e.filas)
                 /\ ~q.con_ean => ex.out.df.rows = ex.e.filas

\* a bounded extraction late in the day: the row of the window's first
\* day, early morning, is in the extract and the row of the day before is
\* not
C18_Testigo ==
    /\ ex.pc = "hecho" /\ ex.op = "tabla" /\ ~ex.out.none
    /\ ex.out.query.filtro.col = "dFecha" /\ ex.e.ahora.hora = 1
    /\ Ids(ex.e.filas) = {"r1", "r2"}
    /\ Ids(ex.out.df.rows) = {"r2"}

(***************************************************************************)
(* Degradation and idempotence of the EAN Enrichment (SpecEan).            *)
(***************************************************************************)
\* the enrichment could not look the codes up: no alias column in the
\* extract, or the lookup connection or query failed
SinLookup ==
    ColProducto(ean.df, ean.impl) = "" \/ ean.conexion # "ok"

C21_CajaNoImporta ==
    (hn.pc = "hecho" /\ hn.op = "header") => hn.out = hn.out2

\* the file name without its suffix and without diacritics
BaseSinAcentos(nombre) ==
    MapSeq(SelectSeq(nombre, LAMBDA c : c # SUF), SinAcento)

\* the identifier when the other characters are deleted
NombreBorrando(nombre) ==
    LET deja == SelectSeq(BaseSinAcentos(nombre),
                          LAMBDA c : EsAlnum(c) \/ c = "_")
    IN  Strip(MapSeq(ColapsarGuiones(deja), Mayuscula), "_")

\* C22 as stated: normalizar_nombre_tabla removes the suffix and the
\* diacritics, drops every character that is not alphanumeric or
\* underscore, collapses repeated underscores, uppercases and strips the
\* edge underscores.
C22_BorraLosDemas ==
    (hn.pc = "hecho" /\ hn.op = "tabla") => hn.out = NombreBorrando(hn.h)

\* the positions of the alphanumeric characters of s, in ascending order
RECURSIVE PosAlnum(_, _)
PosAlnum(s, i) ==
    IF i > Len(s) THEN << >>
    ELSE (IF EsAlnum(s[i]) THEN << i >> ELSE << >>) \o PosAlnum(s, i + 1)

\* C22 (amended): the identifier holds the alphanumeric characters of the
\* file name (suffix and diacritics removed), uppercased and in their
\* order; two of them that follow each other are separated by exactly one
\* underscore if and only if some other character stood between them in
\* the file name, and the identifier neither starts nor ends with an
\* underscore.
C22_SustituyePorGuion ==
    (hn.pc = "hecho" /\ hn.op = "tabla") =>
       LET b == BaseSinAcentos(hn.h)
           P == PosAlnum(b, 1)
           Q == PosAlnum(hn.out, 1)
       IN  /\ Len(Q) = Len(P)
           /\ \A k \in 1..Len(P) : hn.out[Q[k]] = Mayuscula(b[P[k]])
           /\ \A k \in 1..(Len(P) - 1) :
                 /\ P[k + 1] = P[k] + 1 => Q[k + 1] = Q[k] + 1
                 /\ P[k + 1] > P[k] + 1 =>
                       (Q[k + 1] = Q[k] + 2 /\ hn.out[Q[k] + 1] = "_")
           /\ Len(hn.out) = (IF P = << >> THEN 0 ELSE Q[Len(Q)])
           /\ P # << >> => Q[1] = 1

\* a file name with a hyphen between two letters, one of them accented
C22_Testigo ==
    /\ hn.pc = "hecho" /\ hn.op = "tabla"
    /\ hn.h = << "a'", "-", "b", SUF >>
    /\ hn.out = << "A", "_", "B" >>

(***************************************************************************)
(* The loader under concurrent execution (specification SpecConcurrente).  *)
(***************************************************************************)
\* the tables of `previa` under the backup's name
ComoRespaldo(previa, t) == { [ x EXCEPT !.nombre = tabla_old(t) ] : x \in previa }

\* C23: two loads of the same table name that run concurrently can corrupt
\* the backup chain (C23_Testigo reaches such a state), and the
\* interleaving is what does it: a load of an existing table in which no
\* statement failed for a reason of its own and which no other load
\* interfered with succeeds, without a failed rename, and leaves in
\* <name>_OLD the version that was live at its existence check.
C23_SoloLaCarreraCorrompe ==
    \A p \in Procs :
       (/\ pc[p] = "retorno" /\ cur[p].existia
        /\ ~gc[p].con_falla /\ ~gc[p].interferida) =>
          /\ cur[p].stats.exito /\ ~cur[p].rename_fallo
          /\ Olds(cur[p].stats.tabla) = ComoRespaldo(cur[p].previa, cur[p].stats.tabla)

\* both loads found the same live version at their existence checks, no
\* statement of either failed for a reason of its own, both report
\* success, and the rows of that version are in no table of the warehouse
C23_Testigo ==
    /\ \A q \in Procs :
          /\ pc[q] = "retorno" /\ cur[q].existia /\ cur[q].stats.exito
          /\ ~gc[q].con_falla
    /\ cur[1].previa = cur[2].previa
    /\ \E x \in cur[1].previa :
          /\ x.datos # {}
          /\ \A y \in wh : y.datos \cap x.datos = {}

(***************************************************************************)
(* Order of the statements, durability and the outcome records of the      *)
(* loader (specification Spec).                                            *)
(***************************************************************************)
\* C24: within one load the warehouse operations happen only in this
\* order: existence check; then, only if the table exists, drop of
\* <name>_OLD followed by rename of <name>; then create; then bulk load.
\* When the table does not exist no drop or rename is issued, and bulk
\* load is never issued unless create succeeded.  (A process at "drop",
\* "rename", "create" or "copy" issues that statement next.)
C24_OrdenDeSentencias ==
    [][ \A p \in Secuencial :
          LET t == cur[p].stats.tabla
          IN  /\ (pc'[p] = "check" /\ pc[p] # "check") => pc[p] = "leer"
              /\ (pc'[p] = "drop" /\ pc[p] # "drop") =>
                    (pc[p] = "check" /\ Existe(wh, t))
              /\ (pc'[p] = "rename" /\ pc[p] # "rename") => pc[p] = "drop"
              /\ (pc'[p] = "create" /\ pc[p] # "create") =>
                    \/ pc[p] = "rename"
                    \/ pc[p] = "check" /\ ~Existe(wh, t)
              /\ (pc'[p] = "copy" /\ pc[p] # "copy") =>
                    (pc[p] = "create" /\ ~Existe(wh, t) /\ Existe(wh', t))
    ]_vars

\* C25: after any sequence of load attempts to one table name, each of
\* which may succeed or fail at the rename, create or bulk-load step, the
\* rows of the most recent successfully loaded version are still in the
\* warehouse, in the live table <name> or in <name>_OLD.
C25_UltimaVersionPresente ==
    EnReposo =>
       \A t \in Tablas :
          ultima[t] # 0 =>
             \E x \in Vivas(t) \cup Olds(t) : ultima[t] \in x.datos

\* C30: exactly one outcome record is appended per file processed, and
\* every record is consistent: exito = True implies error None and
\* filas_cargadas = filas_leidas; exito = False implies filas_cargadas = 0
\* and a non-empty error detail; country and file are always filled in.
C30_RegistrosConsistentes ==
    /\ \A i \in 1..Len(todas_estadisticas[1]) :
          LET st == todas_estadisticas[1][i]
          IN  /\ st.archivo = plan[1][i].nombre /\ st.pais = plan[1][i].pais
              /\ st.exito => (st.error = None /\ st.filas_cargadas = st.filas_leidas)
              /\ ~st.exito => (st.filas_cargadas = 0 /\ st.error # None)
    /\ Len(todas_estadisticas[1]) <= Len(plan[1])
    /\ (pc[1] = "fin" /\ codigo_salida[1] = 0) =>
          Len(todas_estadisticas[1]) = Len(plan[1])

(***************************************************************************)
(* Properties of the staged files (specification SpecArchivos).            *)
(***************************************************************************)
\* C26: in a full pipeline run in which every step succeeds, every
\* non-empty raw staged CSV of the folder, also one whose headers are
\* already canonical, is normalized, then renamed to
\* <name>_<COUNTRY>_normalizado.csv, then loaded, in that order.
C26_TodoCrudoLlegaAlAlmacen ==
    /\ fs.orden \in { << >>, << "normalizar" >>, << "normalizar", "renombrar" >>,
                      << "normalizar", "renombrar", "cargar" >> }
    /\ fs.pc = "hecho" =>
          \A f \in fs.crudos :
             f.filas # << >> =>
                \E g \in fs.cargados :
                   /\ g.origen = f.nombre /\ g.filas = f.filas
                   /\ g.nombre = [ f.nombre EXCEPT !.ts = FALSE, !.pais = TRUE ]
                   /\ g.sufijo

\* the labels of a header line are pairwise distinct
SinRepetidos(headers) ==
    \A i, j \in 1..Len(headers) : i # j => headers[i] # headers[j]

\* C29: if the column labels of a staged file are pairwise distinct before
\* header normalization, the labels written to its _normalizado.csv file
\* are pairwise distinct too, and the file keeps the number of columns,
\* their order, the rows and the cell values.
C29_EtiquetasSiguenDistintas ==
    \A g \in fs.escritos :
       \E f \in fs.crudos :
          /\ f.nombre = g.origen
          /\ Len(g.headers) = Len(f.headers)
          /\ g.filas = f.filas
          /\ SinRepetidos(f.headers) => SinRepetidos(g.headers)

\* how many times the row r occurs in the rows s
Veces(s, r) == Cardinality({ i \in 1..Len(s) : s[i] = r })

(***************************************************************************)
(* C27: for the same detail rows and the same contents of the product-     *)
(* equivalence table, the query with the EAN_LOOKUP expression and         *)
(* agregar_columna_ean give the same rows, each the same number of times   *)
(* and with the same EAN value.                                            *)
(***************************************************************************)
C27_MismasFilasPorAmbosCaminos ==
    ean.pc = "fusionado" =>
        \A r \in Rango(ean.out.rows) \cup Rango(ean.fusion.rows) :
            Veces(ean.out.rows, r) = Veces(ean.fusion.rows, r)

(***************************************************************************)
(* C28: every connection an operation opens is closed when the operation   *)
(* returns, on the success path and on every failure path, so that after   *)
(* any sequence of operations no connection to the source is open.         *)
(***************************************************************************)
C28_NingunaConexionAbierta == cn.abiertas = 0

=============================================================================
